---- MODULE Spec2Model ----
(***************************************************************************)
(* A model of the rocky-pos back end: the sale engine (SalesService), the   *)
(* invoice engine (InvoicesService), the catalog (ProductsService,         *)
(* CategoriesService), the sales report (ReportsService) and the roles     *)
(* guard, running as concurrent requests against one relational store.     *)
(*                                                                         *)
(* Every request is a process held in a slot of req.  One action is one    *)
(* awaited data-access call of the handler together with the local         *)
(* computation that follows it up to the next await: between two awaits    *)
(* any other request may run.  A call wrapped in prisma.$transaction is    *)
(* one step: its writes commit together or not at all.                     *)
(*                                                                         *)
(* History variables (not program state): req[r].delta, the net change a   *)
(* call has applied to each product's quantity, and serial, which stays    *)
(* TRUE as long as no request has started while another was in flight.     *)
(***************************************************************************)
EXTENDS Integers, Sequences, FiniteSets, TLC

VARIABLES
    products,   \* the products table: id -> row, or NoProduct
    sales,      \* the sales table with its items: id -> row, or NoSale
    nextSaleId, \* number of sale rows ever inserted, plus one (ids are never reused)
    invoices,   \* the invoices table, in insertion order
    categories, \* the categories table: id -> row, or NoCategory
    nextCategoryId, \* number of category rows ever inserted, plus one
    today,      \* the wall clock read by generateInvoiceNumber: [year, month]
    ticks,      \* how many times the month has changed
    timeZone,   \* the time zone of the process: hours ahead of UTC
    req,        \* the requests in flight: slot -> the handler's position and locals
    ops,        \* number of requests started so far
    serial      \* history: no two requests have overlapped so far

vars == <<products, sales, nextSaleId, invoices, categories, nextCategoryId, today, ticks,
          timeZone, req, ops, serial>>

(***************************************************************************)
(* Bounds of the model.                                                    *)
(***************************************************************************)
MaxOps == 3        \* requests started in one behaviour
InitStock == 2     \* initial stock of the first product
MaxTicks == 1      \* month changes in one behaviour

Reqs == {"r1", "r2"}

(***************************************************************************)
(* The catalog.  p1 and p2 exist; p3 is an id no product has.              *)
(***************************************************************************)
Products == {"p1", "p2"}
ProductIds == Products \cup {"p3"}
Customers == {"c1"}

\* sale ids: one per request at most
SaleIds == 1..MaxOps

NoProduct == [absent |-> TRUE]
NoSale == [absent |-> TRUE]
NoInvoice == [absent |-> TRUE]
NoCategory == [absent |-> TRUE]

\* k1 and k2 exist; k3 is an id no category has at the start
Categories == {"k1", "k2"}
CategoryIds == Categories \cup {"k3"}

\* the ids the store gives to the categories that are created, in order
GeneratedCategoryIds == <<"k3", "k4">>
StoredCategoryIds == CategoryIds \cup {GeneratedCategoryIds[k] : k \in 1..Len(GeneratedCategoryIds)}

\* the time zones the process may run in, in hours ahead of UTC:
\* America/New_York in winter, UTC and Asia/Tokyo
TimeZones == {-5, 0, 9}

ZeroDelta == [p \in ProductIds |-> 0]

\* SaleStatus of @prisma/client
SaleStatus == {"COMPLETED", "PENDING", "CANCELLED"}

\* CreateSaleItemDto: productId, quantity >= 1, discount >= 0
ItemQuantities == {1, 2}
ItemInputs == [productId : ProductIds, quantity : ItemQuantities, discount : {0}]

Idle ==
    [op |-> "idle", pc |-> "idle", n |-> 0, item |-> <<>>, id |-> 0, customerId |-> "",
     i |-> 0, saleItems |-> <<>>, totalAmount |-> 0, snap |-> NoSale,
     invoiceNumber |-> <<>>, err |-> "", delta |-> ZeroDelta,
     dto |-> [absent |-> TRUE], subtotal |-> 0, totalDiscount |-> 0, totalTax |-> 0,
     status |-> "", paidDate |-> [present |-> FALSE, value |-> <<>>],
     updateData |-> [absent |-> TRUE],
     user |-> [absent |-> TRUE], requiredRoles |-> <<>>, message |-> <<>>,
     product |-> "", quantity |-> 0, newQuantity |-> 0, categoryId |-> "",
     where |-> [absent |-> TRUE], summary |-> [absent |-> TRUE], prefix |-> <<>>,
     name |-> "", isActive |-> FALSE]

(***************************************************************************)
(* Data-access primitives.                                                 *)
(***************************************************************************)
\* mutant of Decrement: the stock goes down by one per line item
Decrement_ByOne(quantity, n) == quantity - 1

\* prisma.product.update data: { quantity: { decrement: n } }
Decrement(quantity, n) == quantity - n

\* mutant of Increment: the quantity is written, not added
Increment_Absolute(quantity, n) == n

\* prisma.product.update data: { quantity: { increment: n } }
Increment(quantity, n) == quantity + n

\* mutant of Transaction: the writes of a closure that threw are kept
Transaction_NoRollback(before, after, committed) == after

\* prisma.$transaction: the closure's writes are kept only when it returns
Transaction(before, after, committed) == IF committed THEN after ELSE before

\* sum of the item quantities of one product in a list of sale items
RECURSIVE SumQty(_, _)
SumQty(items, p) ==
    IF items = <<>> THEN 0
    ELSE (IF Head(items).productId = p THEN Head(items).quantity ELSE 0)
         + SumQty(Tail(items), p)

\* sum of the totalPrice of a list of sale items
RECURSIVE SumTotalPrice(_)
SumTotalPrice(items) ==
    IF items = <<>> THEN 0 ELSE Head(items).totalPrice + SumTotalPrice(Tail(items))

(***************************************************************************)
(* SalesService.create                                                     *)
(***************************************************************************)
\* mutant of InsufficientStock: only an empty stock is refused
InsufficientStock_EmptyOnly(product, item) == product.quantity < 1

\* line 46: product.quantity < item.quantity
InsufficientStock(product, item) == product.quantity < item.quantity

\* lines 38-48: the first validation an item fails, "" when it passes
ItemError(product, item) ==
    IF product = NoProduct THEN "BadRequest: product not found"
    ELSE IF ~product.isActive THEN "BadRequest: product is not active"
    ELSE IF InsufficientStock(product, item) THEN "BadRequest: insufficient stock"
    ELSE ""

\* mutant of MakeSaleItem: the item's discount is not taken off the line
MakeSaleItem_NoDiscount(product, item) ==
    [productId |-> item.productId, quantity |-> item.quantity,
     unitPrice |-> product.price, discount |-> item.discount,
     totalPrice |-> product.price * item.quantity]

\* lines 50-60: the sale item built from an input item and the product read
MakeSaleItem(product, item) ==
    [productId |-> item.productId, quantity |-> item.quantity,
     unitPrice |-> product.price, discount |-> item.discount,
     totalPrice |-> (product.price * item.quantity) - item.discount]

\* lines 76-77; discount is a percentage of totalAmount and the division
\* is a division of numbers, not of integers: the amount is computed in
\* hundredths, and is an integer when they make a whole number and a
\* decimal (units and hundredths) when they do not
FinalAmount(totalAmount, discount, taxAmount) ==
    LET hundredths == (100 * totalAmount) - (totalAmount * discount) + (100 * taxAmount)
    IN  IF hundredths % 100 = 0
        THEN hundredths \div 100
        ELSE [units |-> hundredths \div 100, hundredths |-> hundredths % 100]

Fail(r, e) == [req[r] EXCEPT !.pc = "failed", !.err = e]

\* a slot is free when it holds no call or one that has ended
Free(r) == req[r].pc \in {"idle", "done", "failed"}

\* a call arrives and takes the first free slot (the slots are
\* interchangeable, so nothing is lost by fixing which one is taken)
Begin(r) ==
    /\ Free(r)
    /\ r = "r1" \/ ~Free("r1")
    /\ ops < MaxOps
    /\ ops' = ops + 1
    /\ serial' = (serial /\ \A o \in Reqs : Free(o))

\* lines 10-27: the call arrives with a list of n items; the list and the
\* customer are validated before any product is read.  The body has no
\* item, one or two, and no customerId (a walk-in sale, "") or an unknown one
CreateStart(r) ==
    /\ Begin(r)
    /\ \E n \in {0, 1, 2}, c \in {"", "c9"} :
         req' = [req EXCEPT ![r] =
            IF n = 0
            THEN [Idle EXCEPT !.op = "create", !.pc = "failed",
                              !.err = "BadRequest: sale must have at least one item"]
            ELSE IF c # "" /\ c \notin Customers
            THEN [Idle EXCEPT !.op = "create", !.pc = "failed", !.customerId = c,
                              !.err = "BadRequest: customer not found"]
            ELSE [Idle EXCEPT !.op = "create", !.n = n, !.customerId = c,
                              !.pc = "create_find", !.i = 1]]
    /\ UNCHANGED <<products, sales, nextSaleId, invoices, categories,
                   nextCategoryId, today, ticks, timeZone>>

\* lines 34-62: item i of the list is read; product.findUnique, the item's
\* validation, and the sale item and running total computed from the product
CreateFindProductWith(r, inputs) ==
    /\ req[r].pc = "create_find"
    /\ \E item \in inputs :
         LET product == products[item.productId]
             e == ItemError(product, item)
         IN  req' = [req EXCEPT ![r] =
                IF e # "" THEN [Fail(r, e) EXCEPT !.item = item]
                ELSE [req[r] EXCEPT
                        !.item = item,
                        !.saleItems = Append(@, MakeSaleItem(product, item)),
                        !.totalAmount = @ + MakeSaleItem(product, item).totalPrice,
                        !.pc = "create_decrement"]]
    /\ UNCHANGED <<products, sales, nextSaleId, invoices, categories,
                   nextCategoryId, today, ticks, timeZone, ops, serial>>

\* the create calls of the concurrent model carry items without a discount
CreateFindProduct(r) == CreateFindProductWith(r, ItemInputs)

\* CreateSaleItemDto with its optional discount given: an amount taken off
\* the line
CreateFindDiscounted(r) ==
    CreateFindProductWith(r, [productId : ProductIds, quantity : ItemQuantities,
                              discount : {0, 1}])

\* lines 65-72: product.update decrements the stock of item i; the row may
\* have been deleted since it was read (Prisma P2025)
CreateDecrement(r) ==
    /\ req[r].pc = "create_decrement"
    /\ LET item == req[r].item
           p == item.productId
       IN  IF products[p] = NoProduct
           THEN /\ req' = [req EXCEPT ![r] = Fail(r, "P2025: product to update not found")]
                /\ UNCHANGED products
           ELSE /\ products' = [products EXCEPT
                                  ![p].quantity = Decrement(@, item.quantity)]
                /\ req' = [req EXCEPT ![r] =
                     [req[r] EXCEPT
                        !.delta[p] = @ + (products'[p].quantity - products[p].quantity),
                        !.i = @ + 1,
                        !.item = <<>>,
                        !.pc = IF req[r].i = req[r].n
                               THEN "create_sale" ELSE "create_find"]]
    /\ UNCHANGED <<sales, nextSaleId, invoices, categories, nextCategoryId,
                   today, ticks, timeZone, ops, serial>>

\* lines 76-110: the sale row and its items are inserted in one nested write
CreateSale(r) ==
    /\ req[r].pc = "create_sale"
    /\ IF \E k \in 1..Len(req[r].saleItems) :
             products[req[r].saleItems[k].productId] = NoProduct
       THEN \* an item's product has been deleted since it was read: the
            \* insert violates sale_items.productId (Prisma P2003)
            /\ req' = [req EXCEPT ![r] = Fail(r, "P2003: foreign key constraint failed")]
            /\ UNCHANGED <<sales, nextSaleId>>
       ELSE /\ sales' = [sales EXCEPT ![nextSaleId] =
                   [status |-> "COMPLETED", items |-> req[r].saleItems,
                    customerId |-> req[r].customerId,
                    totalAmount |-> req[r].totalAmount, discount |-> 0,
                    taxAmount |-> 0,
                    finalAmount |-> FinalAmount(req[r].totalAmount, 0, 0),
                    paymentMethod |-> "CASH", notes |-> ""]]
            /\ nextSaleId' = nextSaleId + 1
            /\ req' = [req EXCEPT ![r] =
                 [req[r] EXCEPT !.pc = "done", !.id = nextSaleId, !.i = 0, !.n = 0,
                                !.customerId = "",
                                !.saleItems = <<>>, !.totalAmount = 0]]
    /\ UNCHANGED <<products, invoices, categories, nextCategoryId, today, ticks,
                   timeZone, ops, serial>>

(***************************************************************************)
(* SalesService.cancelSale                                                 *)
(***************************************************************************)
\* mutant of AlreadyCancelled: the wrong status is compared
AlreadyCancelled_WrongStatus(sale) == sale.status = "PENDING"

\* line 233: sale.status === SaleStatus.CANCELLED
AlreadyCancelled(sale) == sale.status = "CANCELLED"

\* lines 222-235: sale.findUnique with its items; the two early throws
CancelFind(r) ==
    /\ Begin(r)
    /\ \E id \in SaleIds :
         req' = [req EXCEPT ![r] =
            IF sales[id] = NoSale
            THEN [Idle EXCEPT !.op = "cancel", !.id = id, !.pc = "failed",
                              !.err = "NotFound: sale not found"]
            ELSE IF AlreadyCancelled(sales[id])
            THEN [Idle EXCEPT !.op = "cancel", !.id = id, !.snap = sales[id],
                              !.pc = "failed",
                              !.err = "BadRequest: sale is already cancelled"]
            ELSE [Idle EXCEPT !.op = "cancel", !.id = id, !.snap = sales[id],
                              !.i = 1,
                              !.pc = IF Len(sales[id].items) = 0
                                     THEN "cancel_update" ELSE "cancel_increment"]]
    /\ UNCHANGED <<products, sales, nextSaleId, invoices, categories,
                   nextCategoryId, today, ticks, timeZone>>

\* lines 238-247: product.update increments the stock of item i of the
\* sale as it was read
CancelIncrement(r) ==
    /\ req[r].pc = "cancel_increment"
    /\ LET item == req[r].snap.items[req[r].i]
           p == item.productId
       IN  IF products[p] = NoProduct
           THEN /\ req' = [req EXCEPT ![r] = Fail(r, "P2025: product to update not found")]
                /\ UNCHANGED products
           ELSE /\ products' = [products EXCEPT
                                  ![p].quantity = Increment(@, item.quantity)]
                /\ req' = [req EXCEPT ![r] =
                     [req[r] EXCEPT
                        !.delta[p] = @ + (products'[p].quantity - products[p].quantity),
                        !.i = @ + 1,
                        !.pc = IF req[r].i = Len(req[r].snap.items)
                               THEN "cancel_update" ELSE "cancel_increment"]]
    /\ UNCHANGED <<sales, nextSaleId, invoices, categories, nextCategoryId,
                   today, ticks, timeZone, ops, serial>>

\* lines 249-267: sale.update sets the status; the row may have been
\* deleted since it was read (Prisma P2025)
CancelUpdate(r) ==
    /\ req[r].pc = "cancel_update"
    /\ IF sales[req[r].id] = NoSale
       THEN /\ req' = [req EXCEPT ![r] = Fail(r, "P2025: sale to update not found")]
            /\ UNCHANGED sales
       ELSE /\ sales' = [sales EXCEPT ![req[r].id].status = "CANCELLED"]
            /\ req' = [req EXCEPT ![r] = [req[r] EXCEPT !.pc = "done", !.i = 0]]
    /\ UNCHANGED <<products, nextSaleId, invoices, categories, nextCategoryId,
                   today, ticks, timeZone, ops, serial>>

(***************************************************************************)
(* SalesService.remove                                                     *)
(***************************************************************************)
\* lines 444-453: sale.findUnique with its items, outside the transaction
RemoveFind(r) ==
    /\ Begin(r)
    /\ \E id \in SaleIds :
         req' = [req EXCEPT ![r] =
            IF sales[id] = NoSale
            THEN [Idle EXCEPT !.op = "remove", !.id = id, !.pc = "failed",
                              !.err = "NotFound: sale not found"]
            ELSE [Idle EXCEPT !.op = "remove", !.id = id, !.snap = sales[id],
                              !.pc = "remove_transaction"]]
    /\ UNCHANGED <<products, sales, nextSaleId, invoices, categories,
                   nextCategoryId, today, ticks, timeZone>>

\* lines 459-468: the increments of the closure, item by item, up to the
\* first update of a missing product, which throws (Prisma P2025)
RECURSIVE RestoreStock(_, _)
RestoreStock(prods, items) ==
    IF items = <<>> THEN [products |-> prods, ok |-> TRUE]
    ELSE IF prods[Head(items).productId] = NoProduct THEN [products |-> prods, ok |-> FALSE]
    ELSE RestoreStock(
            [prods EXCEPT ![Head(items).productId].quantity =
                            Increment(@, Head(items).quantity)],
            Tail(items))

\* lines 456-492: the closure restores the stock of a sale read as
\* COMPLETED, then deletes the sale with its items; the delete of a missing
\* sale throws (Prisma P2025); when the closure throws nothing is committed
RemoveTransaction(r) ==
    /\ req[r].pc = "remove_transaction"
    /\ LET id == req[r].id
           items == IF req[r].snap.status = "COMPLETED" THEN req[r].snap.items ELSE <<>>
           restored == RestoreStock(products, items)
           deleted == restored.ok /\ sales[id] # NoSale
       IN  /\ products' = Transaction(products, restored.products, deleted)
           /\ sales' = Transaction(sales,
                                   IF deleted THEN [sales EXCEPT ![id] = NoSale] ELSE sales,
                                   deleted)
           /\ req' = [req EXCEPT ![r] =
                [req[r] EXCEPT
                   !.delta = [p \in ProductIds |->
                                IF products[p] = NoProduct THEN 0
                                ELSE products'[p].quantity - products[p].quantity],
                   !.pc = IF deleted THEN "done" ELSE "failed",
                   !.err = IF deleted THEN "" ELSE "P2025: record not found"]]
    /\ UNCHANGED <<nextSaleId, invoices, categories, nextCategoryId, today,
                   ticks, timeZone, ops, serial>>

(***************************************************************************)
(* Strings.  A string is a sequence of one-character strings, so that      *)
(* formatting, parsing and the store's ordering of invoice numbers are     *)
(* computed, not assumed.                                                  *)
(***************************************************************************)
DigitChars == <<"0", "1", "2", "3", "4", "5", "6", "7", "8", "9">>

IsDigit(c) == \E d \in 1..Len(DigitChars) : DigitChars[d] = c

DigitValue(c) == (CHOOSE d \in 1..Len(DigitChars) : DigitChars[d] = c) - 1

\* the code point order of the characters an invoice number is made of:
\* "-" < "0" .. "9" < "A" .. "Z"
CharCode(c) ==
    IF c = "-" THEN 45
    ELSE IF IsDigit(c) THEN 48 + DigitValue(c)
    ELSE IF c = "I" THEN 73
    ELSE IF c = "N" THEN 78
    ELSE IF c = "V" THEN 86
    ELSE 97

\* String(n) for a natural number
RECURSIVE NumberToString(_)
NumberToString(n) ==
    IF n < 10 THEN <<DigitChars[n + 1]>>
    ELSE Append(NumberToString(n \div 10), DigitChars[(n % 10) + 1])

\* String.prototype.padStart(width, pad) with a one-character pad
RECURSIVE PadStart(_, _, _)
PadStart(str, width, pad) ==
    IF Len(str) >= width THEN str ELSE PadStart(<<pad>> \o str, width, pad)

\* String.prototype.split(sep) with a one-character separator
RECURSIVE Split(_, _)
Split(str, sep) ==
    IF \A k \in 1..Len(str) : str[k] # sep THEN <<str>>
    ELSE LET k == CHOOSE j \in 1..Len(str) :
                     str[j] = sep /\ \A h \in 1..(j - 1) : str[h] # sep
         IN  <<SubSeq(str, 1, k - 1)>> \o Split(SubSeq(str, k + 1, Len(str)), sep)

\* parseInt(str): the value of the leading run of digits; NaN when there is
\* none
RECURSIVE DigitsValue(_, _)
DigitsValue(str, acc) ==
    IF str = <<>> \/ ~IsDigit(Head(str)) THEN acc
    ELSE DigitsValue(Tail(str), (acc * 10) + DigitValue(Head(str)))

ParseInt(str) ==
    IF str = <<>> \/ ~IsDigit(Head(str)) THEN [nan |-> TRUE, value |-> 0]
    ELSE [nan |-> FALSE, value |-> DigitsValue(str, 0)]

\* where: { invoiceNumber: { startsWith: prefix } }
StartsWith(str, prefix) ==
    /\ Len(str) >= Len(prefix)
    /\ SubSeq(str, 1, Len(prefix)) = prefix

\* the store's ordering of text: character by character, a proper prefix first
RECURSIVE StringLess(_, _)
StringLess(a, b) ==
    IF b = <<>> THEN FALSE
    ELSE IF a = <<>> THEN TRUE
    ELSE IF CharCode(Head(a)) # CharCode(Head(b)) THEN CharCode(Head(a)) < CharCode(Head(b))
    ELSE StringLess(Tail(a), Tail(b))

(***************************************************************************)
(* InvoicesService.createInvoice and generateInvoiceNumber                 *)
(***************************************************************************)
\* line 546: padStart(4, '0') of the sequence
SequenceWidth == 4

\* line 525: padStart(2, '0') of the month
MonthWidth == 2

\* `INV-${year}${month}`
InvoicePrefix(date) ==
    <<"I", "N", "V", "-">> \o NumberToString(date.year)
        \o PadStart(NumberToString(date.month), MonthWidth, "0")

\* invoice.findFirst where startsWith prefix, orderBy invoiceNumber desc
FindLastInvoice(rows, prefix) ==
    LET matching == {k \in 1..Len(rows) : StartsWith(rows[k].invoiceNumber, prefix)}
    IN  IF matching = {} THEN NoInvoice
        ELSE rows[CHOOSE k \in matching :
                    \A j \in matching :
                        ~StringLess(rows[k].invoiceNumber, rows[j].invoiceNumber)]

\* mutant of NextSequence: the numbering of a month starts at zero
NextSequence_FromZero(lastInvoice) ==
    IF lastInvoice = NoInvoice THEN [nan |-> FALSE, value |-> 0]
    ELSE [nan |-> FALSE,
          value |-> ParseInt(Split(lastInvoice.invoiceNumber, "-")[3]).value + 1]

\* lines 540-544: 1, or the last invoice's third "-" field plus one
NextSequence(lastInvoice) ==
    IF lastInvoice = NoInvoice THEN [nan |-> FALSE, value |-> 1]
    ELSE LET fields == Split(lastInvoice.invoiceNumber, "-")
             lastSequence == IF Len(fields) >= 3 THEN ParseInt(fields[3])
                             ELSE [nan |-> TRUE, value |-> 0]
         IN  [nan |-> lastSequence.nan, value |-> lastSequence.value + 1]

\* String(sequence)
SequenceString(sequence) ==
    IF sequence.nan THEN <<"N", "a", "N">> ELSE NumberToString(sequence.value)

\* lines 529-547: the number made from a prefix and the rows of the table
GenerateInvoiceNumber(rows, prefix) ==
    prefix \o <<"-">>
        \o PadStart(SequenceString(NextSequence(FindLastInvoice(rows, prefix))),
                    SequenceWidth, "0")

\* mutant of UniqueViolation: the table has no unique index
UniqueViolation_NoIndex(rows, invoiceNumber) == FALSE

\* CREATE UNIQUE INDEX invoices_invoiceNumber_key: an insert of a number
\* some row already has is rejected
UniqueViolation(rows, invoiceNumber) ==
    \E k \in 1..Len(rows) : rows[k].invoiceNumber = invoiceNumber

\* an optional number of a request body: <<>> when the field is absent
Absent == <<>>

\* CreateInvoiceDto: the bodies the createInvoice calls are sent.  An item has
\* quantity >= 1, unitPrice >= 0 and optional discount and taxAmount >= 0;
\* the document has optional discount and taxAmount >= 0.
CreateInvoiceDtos ==
    {[items |-> <<[quantity |-> 1, unitPrice |-> 3, discount |-> Absent, taxAmount |-> Absent]>>,
      discount |-> Absent, taxAmount |-> Absent],
     [items |-> <<[quantity |-> 2, unitPrice |-> 5, discount |-> <<1>>, taxAmount |-> <<2>>],
                  [quantity |-> 1, unitPrice |-> 3, discount |-> <<0>>, taxAmount |-> Absent]>>,
      discount |-> <<1>>, taxAmount |-> <<2>>]}

\* line 40: `discount = 0` in the destructuring, the default of an absent field
OrDefault(field, default) == IF field = Absent THEN default ELSE field[1]

\* lines 58-59: `item.discount || 0`, zero for an absent field and for zero
OrZero(field) == IF field = Absent \/ field[1] = 0 THEN 0 ELSE field[1]

\* mutant of InvoiceTotals: the document-level discount and tax are left out
RECURSIVE InvoiceTotals_ItemsOnly(_, _, _)
InvoiceTotals_ItemsOnly(items, discount, taxAmount) ==
    IF items = <<>>
    THEN [subtotal |-> 0, totalDiscount |-> 0, totalTax |-> 0, totalAmount |-> 0]
    ELSE LET rest == InvoiceTotals_ItemsOnly(Tail(items), discount, taxAmount)
             item == Head(items)
         IN  [subtotal |-> rest.subtotal + (item.quantity * item.unitPrice),
              totalDiscount |-> rest.totalDiscount + OrZero(item.discount),
              totalTax |-> rest.totalTax + OrZero(item.taxAmount),
              totalAmount |-> (rest.subtotal + (item.quantity * item.unitPrice))
                                - (rest.totalDiscount + OrZero(item.discount))
                                + (rest.totalTax + OrZero(item.taxAmount))]

\* lines 52-64: the loop over the items, from the accumulators acc
RECURSIVE AccumulateTotals(_, _)
AccumulateTotals(items, acc) ==
    IF items = <<>> THEN acc
    ELSE LET item == Head(items)
             itemSubtotal == item.quantity * item.unitPrice
             itemDiscount == OrZero(item.discount)
             itemTax == OrZero(item.taxAmount)
         IN  AccumulateTotals(Tail(items),
                 [subtotal |-> acc.subtotal + itemSubtotal,
                  totalDiscount |-> acc.totalDiscount + itemDiscount,
                  totalTax |-> acc.totalTax + itemTax])

\* lines 52-66: subtotal, totalDiscount, totalTax and totalAmount
InvoiceTotals(items, discount, taxAmount) ==
    LET sums == AccumulateTotals(items,
                    [subtotal |-> 0, totalDiscount |-> discount, totalTax |-> taxAmount])
    IN  [subtotal |-> sums.subtotal, totalDiscount |-> sums.totalDiscount,
         totalTax |-> sums.totalTax,
         totalAmount |-> sums.subtotal - sums.totalDiscount + sums.totalTax]

\* lines 91-99: the invoice item rows inserted with the invoice
InvoiceItemRows(items) ==
    [k \in 1..Len(items) |->
        [quantity |-> items[k].quantity, unitPrice |-> items[k].unitPrice,
         discount |-> OrZero(items[k].discount), taxAmount |-> OrZero(items[k].taxAmount),
         totalPrice |-> (items[k].quantity * items[k].unitPrice)
                           - OrZero(items[k].discount) + OrZero(items[k].taxAmount)]]

\* a date column that is NULL
NoDate == [absent |-> TRUE]

\* lines 39-69 and 522-527: the call arrives, the customer is looked up
\* and the totals are computed; generateInvoiceNumber then reads the clock
\* and builds its prefix before it awaits the last invoice of the month
InvoiceStart(r) ==
    /\ Begin(r)
    /\ \E c \in {"c1", "c9"}, dto \in CreateInvoiceDtos :
         req' = [req EXCEPT ![r] =
            IF c \notin Customers
            THEN [Idle EXCEPT !.op = "invoice", !.pc = "failed",
                              !.err = "NotFound: customer not found"]
            ELSE LET totals == InvoiceTotals(dto.items, OrDefault(dto.discount, 0),
                                             OrDefault(dto.taxAmount, 0))
                 IN  [Idle EXCEPT !.op = "invoice", !.customerId = c, !.dto = dto,
                                  !.subtotal = totals.subtotal,
                                  !.totalDiscount = totals.totalDiscount,
                                  !.totalTax = totals.totalTax,
                                  !.totalAmount = totals.totalAmount,
                                  !.prefix = InvoicePrefix(today),
                                  !.pc = "invoice_generate"]]
    /\ UNCHANGED <<products, sales, nextSaleId, invoices, categories,
                   nextCategoryId, today, ticks, timeZone>>

\* lines 529-547: invoice.findFirst returns the last invoice with the
\* prefix built before the await, and the number is made from it
InvoiceGenerate(r) ==
    /\ req[r].pc = "invoice_generate"
    /\ req' = [req EXCEPT ![r] =
                 [req[r] EXCEPT !.invoiceNumber = GenerateInvoiceNumber(invoices, req[r].prefix),
                                !.pc = "invoice_create"]]
    /\ UNCHANGED <<products, sales, nextSaleId, invoices, categories,
                   nextCategoryId, today, ticks, timeZone, ops, serial>>

\* lines 72-115: invoice.create inserts the row, unless the unique index
\* rejects its number (Prisma P2002)
InvoiceCreate(r) ==
    /\ req[r].pc = "invoice_create"
    /\ IF UniqueViolation(invoices, req[r].invoiceNumber)
       THEN /\ req' = [req EXCEPT ![r] =
                         Fail(r, "P2002: unique constraint failed on invoiceNumber")]
            /\ UNCHANGED invoices
       ELSE /\ invoices' = Append(invoices,
                              [invoiceNumber |-> req[r].invoiceNumber,
                               customerId |-> req[r].customerId,
                               subtotal |-> req[r].subtotal,
                               discount |-> req[r].totalDiscount,
                               taxAmount |-> req[r].totalTax,
                               totalAmount |-> req[r].totalAmount,
                               finalAmount |-> req[r].totalAmount,
                               status |-> "UNPAID",
                               paidDate |-> NoDate,
                               items |-> InvoiceItemRows(req[r].dto.items)])
            /\ req' = [req EXCEPT ![r] =
                         [req[r] EXCEPT !.pc = "done", !.id = Len(invoices) + 1]]
    /\ UNCHANGED <<products, sales, nextSaleId, categories, nextCategoryId,
                   today, ticks, timeZone, ops, serial>>

(***************************************************************************)
(* InvoicesService.updateInvoiceStatus and deleteInvoice                   *)
(***************************************************************************)
\* enum InvoiceStatus
InvoiceStatus == {"UNPAID", "PAID", "PARTIALLY_PAID", "OVERDUE", "CANCELLED"}

\* the ids the status calls are sent: the first two invoices created
InvoiceIdInputs == {1, 2}

\* UpdateInvoiceStatusDto.paidDate, an optional string: absent, the empty
\* string, or an ISO date
PaidDateInputs ==
    {[present |-> FALSE, value |-> <<>>],
     [present |-> TRUE, value |-> <<>>],
     [present |-> TRUE, value |-> <<"2", "0", "2", "4", "-", "1", "2", "-", "1", "5">>]}

\* the truth value of an optional string: false when absent or empty
Truthy(field) == field.present /\ field.value # <<>>

\* new Date(str) for an ISO date yyyy-mm-dd
ParseDate(str) ==
    LET fields == Split(str, "-")
    IN  [year |-> ParseInt(fields[1]).value, month |-> ParseInt(fields[2]).value,
         day |-> ParseInt(fields[3]).value]

\* invoice.findUnique where id
FindInvoice(rows, id) == IF id \in 1..Len(rows) THEN rows[id] ELSE NoInvoice

\* mutant of IsCancelled: the guard tests for PAID
IsCancelled_TestsPaid(invoice) == invoice.status = "PAID"

\* line 399: invoice.status === InvoiceStatus.CANCELLED
IsCancelled(invoice) == invoice.status = "CANCELLED"

\* mutant of IsPaid: the guard tests for CANCELLED
IsPaid_TestsCancelled(invoice) == invoice.status = "CANCELLED"

\* line 479: invoice.status === InvoiceStatus.PAID
IsPaid(invoice) == invoice.status = "PAID"

\* lines 403-407: the data of the update
UpdateData(status, paidDate) ==
    IF status = "PAID" /\ Truthy(paidDate)
    THEN [status |-> status, paidDate |-> <<ParseDate(paidDate.value)>>]
    ELSE [status |-> status, paidDate |-> <<>>]

\* invoice.update data: the columns named are written, the others kept
ApplyUpdate(row, data) ==
    [row EXCEPT !.status = data.status,
                !.paidDate = IF data.paidDate = <<>> THEN @ ELSE data.paidDate[1]]

\* lines 388-407: the call arrives, the invoice is read and the guards run
UpdateStatusFind(r) ==
    /\ Begin(r)
    /\ \E id \in InvoiceIdInputs, status \in InvoiceStatus, paidDate \in PaidDateInputs :
         LET invoice == FindInvoice(invoices, id)
             call == [Idle EXCEPT !.op = "status", !.id = id, !.status = status,
                                  !.paidDate = paidDate, !.snap = invoice]
         IN  req' = [req EXCEPT ![r] =
                IF invoice = NoInvoice
                THEN [call EXCEPT !.pc = "failed", !.err = "NotFound: invoice not found"]
                ELSE IF IsCancelled(invoice)
                THEN [call EXCEPT !.pc = "failed",
                        !.err = "BadRequest: cannot update status of a cancelled invoice"]
                ELSE [call EXCEPT !.pc = "status_update",
                                  !.updateData = UpdateData(status, paidDate)]]
    /\ UNCHANGED <<products, sales, nextSaleId, invoices, categories,
                   nextCategoryId, today, ticks, timeZone>>

\* lines 409-468: invoice.update writes the status, and the paid date when
\* the data has one
UpdateStatusUpdate(r) ==
    /\ req[r].pc = "status_update"
    /\ invoices' = [invoices EXCEPT ![req[r].id] = ApplyUpdate(@, req[r].updateData)]
    /\ req' = [req EXCEPT ![r] = [req[r] EXCEPT !.pc = "done"]]
    /\ UNCHANGED <<products, sales, nextSaleId, categories, nextCategoryId,
                   today, ticks, timeZone, ops, serial>>

\* lines 470-481: the call arrives, the invoice is read and the guards run
DeleteInvoiceFind(r) ==
    /\ Begin(r)
    /\ \E id \in InvoiceIdInputs :
         LET invoice == FindInvoice(invoices, id)
             call == [Idle EXCEPT !.op = "delete", !.id = id, !.snap = invoice]
         IN  req' = [req EXCEPT ![r] =
                IF invoice = NoInvoice
                THEN [call EXCEPT !.pc = "failed", !.err = "NotFound: invoice not found"]
                ELSE IF IsPaid(invoice)
                THEN [call EXCEPT !.pc = "failed",
                                  !.err = "BadRequest: cannot cancel a paid invoice"]
                ELSE [call EXCEPT !.pc = "delete_update",
                                  !.updateData = [status |-> "CANCELLED", paidDate |-> <<>>]]]
    /\ UNCHANGED <<products, sales, nextSaleId, invoices, categories,
                   nextCategoryId, today, ticks, timeZone>>

\* lines 483-494: invoice.update sets the status to CANCELLED
DeleteInvoiceUpdate(r) ==
    /\ req[r].pc = "delete_update"
    /\ invoices' = [invoices EXCEPT ![req[r].id] = ApplyUpdate(@, req[r].updateData)]
    /\ req' = [req EXCEPT ![r] = [req[r] EXCEPT !.pc = "done"]]
    /\ UNCHANGED <<products, sales, nextSaleId, categories, nextCategoryId,
                   today, ticks, timeZone, ops, serial>>

(***************************************************************************)
(* RolesGuard.canActivate                                                  *)
(***************************************************************************)
\* enum Role of @prisma/client
Roles == {"USER", "CASHIER", "MANAGER", "ADMIN", "SUPER_ADMIN"}

\* request.user is null
NoUser == [absent |-> TRUE]

\* request.user: nothing, or an object whose role and isActive may be
\* missing (<<>>)
Users ==
    {NoUser} \cup [role : {<<>>} \cup {<<role>> : role \in Roles},
                   isActive : {<<>>, <<TRUE>>, <<FALSE>>}]

\* the metadata of @Roles(...): none (<<>>), or the list of roles declared
RequiredRolesInputs ==
    {<<>>} \cup {<<list>> : list \in {<<>>} \cup {<<a>> : a \in Roles}
                                   \cup {<<a, b>> : a \in Roles, b \in Roles}}

\* lines 47-53: roleHierarchy
RoleHierarchy(role) ==
    CASE role = "USER" -> 1
      [] role = "CASHIER" -> 2
      [] role = "MANAGER" -> 3
      [] role = "ADMIN" -> 4
      [] role = "SUPER_ADMIN" -> 5

\* mutant of CheckUserRole: the user's role must be one of those declared
CheckUserRole_ExactMatch(userRole, requiredRoles) ==
    \E k \in 1..Len(requiredRoles) : userRole = requiredRoles[k]

\* lines 45-62: some declared role has a level the user's level reaches
CheckUserRole(userRole, requiredRoles) ==
    LET userRoleLevel == RoleHierarchy(userRole)
    IN  \E k \in 1..Len(requiredRoles) :
            LET requiredRoleLevel == RoleHierarchy(requiredRoles[k])
            IN  userRoleLevel >= requiredRoleLevel

\* mutant of NotActive: only an isActive of false is refused
NotActive_FalseOnly(user) == user.isActive = <<FALSE>>

\* line 30: !user.isActive, true of false and of a missing property
NotActive(user) == user.isActive = <<>> \/ ~user.isActive[1]

\* Array.prototype.join(sep), as the list of the pieces of the string
RECURSIVE Join(_, _)
Join(list, sep) ==
    IF list = <<>> THEN <<>>
    ELSE IF Len(list) = 1 THEN <<list[1]>>
    ELSE <<list[1], sep>> \o Join(Tail(list), sep)

\* mutant of DeniedMessage: the message of the inactive account is reused
DeniedMessage_Inactive(requiredRoles, userRole) == <<"User account is inactive">>

\* lines 37-39: the message of an insufficient role, as the list of the
\* pieces of the template string
DeniedMessage(requiredRoles, userRole) ==
    <<"Access denied. Required roles: ">> \o Join(requiredRoles, ", ")
        \o <<". Your role: ", userRole>>

\* lines 16-42: TRUE, or the ForbiddenException thrown
CanActivateResult(user, requiredRoles) ==
    IF requiredRoles = <<>> THEN [activated |-> TRUE, message |-> <<>>]
    ELSE IF user = NoUser THEN [activated |-> FALSE, message |-> <<"User not authenticated">>]
    ELSE IF user.role = <<>> THEN [activated |-> FALSE, message |-> <<"User role not found">>]
    ELSE IF NotActive(user)
    THEN [activated |-> FALSE, message |-> <<"User account is inactive">>]
    ELSE IF ~CheckUserRole(user.role[1], requiredRoles[1])
    THEN [activated |-> FALSE, message |-> DeniedMessage(requiredRoles[1], user.role[1])]
    ELSE [activated |-> TRUE, message |-> <<>>]

\* lines 10-43: the guard runs on a request; it does not await
CanActivate(r) ==
    /\ Begin(r)
    /\ \E user \in Users, requiredRoles \in RequiredRolesInputs :
         LET result == CanActivateResult(user, requiredRoles)
         IN  req' = [req EXCEPT ![r] =
                [Idle EXCEPT !.op = "canActivate", !.user = user,
                             !.requiredRoles = requiredRoles,
                             !.pc = IF result.activated THEN "done" ELSE "failed",
                             !.err = IF result.activated THEN "" ELSE "Forbidden",
                             !.message = result.message]]
    /\ UNCHANGED <<products, sales, nextSaleId, invoices, categories,
                   nextCategoryId, today, ticks, timeZone>>

(***************************************************************************)
(* SalesService.update and SalesService.updateSaleStatus                   *)
(***************************************************************************)
\* UpdateSaleDto: customerId, discount, taxAmount, paymentMethod, status
\* and notes, every one optional.  The bodies sent: the empty one, one for
\* each status (any SaleStatus), one that names a status and a discount (a
\* percentage), one that names the customer only, and one that names every
\* field but the status.
UpdateSaleDtos ==
    LET empty == [customerId |-> Absent, discount |-> Absent, taxAmount |-> Absent,
                  paymentMethod |-> Absent, status |-> Absent, notes |-> Absent]
    IN  {empty}
        \cup {[empty EXCEPT !.status = <<s>>] : s \in SaleStatus}
        \cup {[empty EXCEPT !.status = <<"PENDING">>, !.discount = <<10>>],
              [empty EXCEPT !.customerId = <<"c1">>],
              [customerId |-> <<"c1">>, discount |-> <<10>>, taxAmount |-> <<1>>,
               paymentMethod |-> <<"CARD">>, status |-> Absent, notes |-> <<"paid">>]}

\* sale.update data: updateSaleDto; every column the body names is
\* written, the others (the items, totalAmount and finalAmount among them)
\* are kept
ApplySaleUpdate(sale, dto) ==
    [sale EXCEPT !.customerId = OrDefault(dto.customerId, @),
                 !.discount = OrDefault(dto.discount, @),
                 !.taxAmount = OrDefault(dto.taxAmount, @),
                 !.paymentMethod = OrDefault(dto.paymentMethod, @),
                 !.status = OrDefault(dto.status, @),
                 !.notes = OrDefault(dto.notes, @)]

\* lines 189-195: sale.findUnique and the early throw
UpdateSaleFind(r) ==
    /\ Begin(r)
    /\ \E id \in SaleIds, dto \in UpdateSaleDtos :
         req' = [req EXCEPT ![r] =
            IF sales[id] = NoSale
            THEN [Idle EXCEPT !.op = "update", !.id = id, !.dto = dto, !.pc = "failed",
                              !.err = "NotFound: sale not found"]
            ELSE [Idle EXCEPT !.op = "update", !.id = id, !.dto = dto,
                              !.snap = sales[id], !.pc = "update_sale_update"]]
    /\ UNCHANGED <<products, sales, nextSaleId, invoices, categories,
                   nextCategoryId, today, ticks, timeZone>>

\* lines 197-218: sale.update writes the body; no product is touched; the
\* row may have been deleted since it was read (Prisma P2025)
UpdateSaleUpdate(r) ==
    /\ req[r].pc = "update_sale_update"
    /\ IF sales[req[r].id] = NoSale
       THEN /\ req' = [req EXCEPT ![r] = Fail(r, "P2025: sale to update not found")]
            /\ UNCHANGED sales
       ELSE /\ sales' = [sales EXCEPT ![req[r].id] = ApplySaleUpdate(@, req[r].dto)]
            /\ req' = [req EXCEPT ![r] = [req[r] EXCEPT !.pc = "done"]]
    /\ UNCHANGED <<products, nextSaleId, invoices, categories, nextCategoryId,
                   today, ticks, timeZone, ops, serial>>

\* line 379: Object.values(SaleStatus).includes(status)
ValidStatus(status) == status \in SaleStatus

\* lines 377-390: the status is validated, then sale.findUnique and the
\* early throw.  The status strings a call is sent: the three of
\* SaleStatus and one that is none of them.
UpdateSaleStatusFind(r) ==
    /\ Begin(r)
    /\ \E id \in SaleIds, status \in SaleStatus \cup {"REFUNDED"} :
         req' = [req EXCEPT ![r] =
            IF ~ValidStatus(status)
            THEN [Idle EXCEPT !.op = "updateSaleStatus", !.id = id, !.status = status,
                              !.pc = "failed", !.err = "BadRequest: invalid status"]
            ELSE IF sales[id] = NoSale
            THEN [Idle EXCEPT !.op = "updateSaleStatus", !.id = id, !.status = status,
                              !.pc = "failed", !.err = "NotFound: sale not found"]
            ELSE [Idle EXCEPT !.op = "updateSaleStatus", !.id = id, !.status = status,
                              !.snap = sales[id], !.pc = "sale_status_update"]]
    /\ UNCHANGED <<products, sales, nextSaleId, invoices, categories,
                   nextCategoryId, today, ticks, timeZone>>

\* lines 392-411: sale.update writes the status; no product is touched; the
\* row may have been deleted since it was read (Prisma P2025)
UpdateSaleStatusUpdate(r) ==
    /\ req[r].pc = "sale_status_update"
    /\ IF sales[req[r].id] = NoSale
       THEN /\ req' = [req EXCEPT ![r] = Fail(r, "P2025: sale to update not found")]
            /\ UNCHANGED sales
       ELSE /\ sales' = [sales EXCEPT ![req[r].id].status = req[r].status]
            /\ req' = [req EXCEPT ![r] = [req[r] EXCEPT !.pc = "done"]]
    /\ UNCHANGED <<products, nextSaleId, invoices, categories, nextCategoryId,
                   today, ticks, timeZone, ops, serial>>

(***************************************************************************)
(* ProductsService.updateStock                                             *)
(***************************************************************************)
\* mutant of NewQuantity: the argument is taken as the new quantity
NewQuantity_Overwrite(product, quantity) == quantity

\* line 221: product.quantity + quantity, from the product as it was read
NewQuantity(product, quantity) == product.quantity + quantity

\* lines 212-225: product.findUnique, the new quantity and the two early
\* throws; the quantity argument is a signed adjustment
UpdateStockFind(r) ==
    /\ Begin(r)
    /\ \E id \in ProductIds, quantity \in {-2, 1} :
         LET call == [Idle EXCEPT !.op = "updateStock", !.product = id,
                                  !.quantity = quantity]
         IN  req' = [req EXCEPT ![r] =
                IF products[id] = NoProduct
                THEN [call EXCEPT !.pc = "failed", !.err = "NotFound: product not found"]
                ELSE IF NewQuantity(products[id], quantity) < 0
                THEN [call EXCEPT !.pc = "failed", !.err = "BadRequest: Insufficient stock"]
                ELSE [call EXCEPT !.pc = "stock_update",
                                  !.newQuantity = NewQuantity(products[id], quantity)]]
    /\ UNCHANGED <<products, sales, nextSaleId, invoices, categories,
                   nextCategoryId, today, ticks, timeZone>>

\* lines 227-240: product.update writes the quantity computed from the
\* read; the row may have been deleted since (Prisma P2025)
UpdateStockUpdate(r) ==
    /\ req[r].pc = "stock_update"
    /\ LET p == req[r].product
       IN  IF products[p] = NoProduct
           THEN /\ req' = [req EXCEPT ![r] = Fail(r, "P2025: product to update not found")]
                /\ UNCHANGED products
           ELSE /\ products' = [products EXCEPT ![p].quantity = req[r].newQuantity]
                /\ req' = [req EXCEPT ![r] =
                     [req[r] EXCEPT
                        !.delta[p] = @ + (products'[p].quantity - products[p].quantity),
                        !.pc = "done"]]
    /\ UNCHANGED <<sales, nextSaleId, invoices, categories, nextCategoryId,
                   today, ticks, timeZone, ops, serial>>

(***************************************************************************)
(* The references the store enforces between the tables of the catalog.    *)
(***************************************************************************)
\* mutant of SaleItemReferences: sale_items.productId is not a foreign key
SaleItemReferences_None(saleRows, p) == FALSE

\* some sale item references product p
SaleItemReferences(saleRows, p) ==
    \E id \in SaleIds :
        /\ saleRows[id] # NoSale
        /\ \E k \in 1..Len(saleRows[id].items) : saleRows[id].items[k].productId = p

\* what the store does with the sale items of a product that is deleted:
\* the delete is rejected, or the items are deleted with it
ProductOnDelete == {"RESTRICT", "CASCADE"}

\* the sales without their items of product p
CascadeSaleItems(saleRows, p) ==
    [id \in SaleIds |->
        IF saleRows[id] = NoSale THEN NoSale
        ELSE [saleRows[id] EXCEPT !.items = SelectSeq(@, LAMBDA item : item.productId # p)]]

\* some product references category c: the store rejects the delete of c
ProductReferences(productRows, c) ==
    \E p \in ProductIds : productRows[p] # NoProduct /\ productRows[p].categoryId = c

(***************************************************************************)
(* ProductsService.remove                                                  *)
(***************************************************************************)
\* lines 171-178: product.findUnique and the early throw
ProductRemoveFind(r) ==
    /\ Begin(r)
    /\ \E id \in ProductIds :
         req' = [req EXCEPT ![r] =
            IF products[id] = NoProduct
            THEN [Idle EXCEPT !.op = "removeProduct", !.product = id, !.pc = "failed",
                              !.err = "NotFound: product not found"]
            ELSE [Idle EXCEPT !.op = "removeProduct", !.product = id,
                              !.pc = "product_delete"]]
    /\ UNCHANGED <<products, sales, nextSaleId, invoices, categories,
                   nextCategoryId, today, ticks, timeZone>>

\* lines 180-184: product.delete, with no test of the sale items; the row
\* may have been deleted since it was read (Prisma P2025), and the store
\* applies its rule to the sale items that reference the product
ProductRemoveDelete(r) ==
    /\ req[r].pc = "product_delete"
    /\ LET p == req[r].product
       IN  IF products[p] = NoProduct
           THEN /\ req' = [req EXCEPT ![r] = Fail(r, "P2025: product to delete not found")]
                /\ UNCHANGED <<products, sales>>
           ELSE \E rule \in ProductOnDelete :
                   IF rule = "RESTRICT" /\ SaleItemReferences(sales, p)
                   THEN /\ req' = [req EXCEPT ![r] =
                                     Fail(r, "P2003: foreign key constraint failed")]
                        /\ UNCHANGED <<products, sales>>
                   ELSE /\ products' = [products EXCEPT ![p] = NoProduct]
                        /\ sales' = IF rule = "CASCADE"
                                    THEN CascadeSaleItems(sales, p) ELSE sales
                        /\ req' = [req EXCEPT ![r] = [req[r] EXCEPT !.pc = "done"]]
    /\ UNCHANGED <<nextSaleId, invoices, categories, nextCategoryId, today,
                   ticks, timeZone, ops, serial>>

(***************************************************************************)
(* ProductsService.create                                                  *)
(***************************************************************************)
\* the product a create call describes: its SKU is the one no product of
\* the initial catalog has; no supplier is named
NewProduct == "p3"

\* lines 9-19: category.findUnique and the early throw
ProductCreateStart(r) ==
    /\ Begin(r)
    /\ \E c \in CategoryIds :
         req' = [req EXCEPT ![r] =
            IF categories[c] = NoCategory
            THEN [Idle EXCEPT !.op = "createProduct", !.product = NewProduct,
                              !.categoryId = c, !.pc = "failed",
                              !.err = "BadRequest: category not found"]
            ELSE [Idle EXCEPT !.op = "createProduct", !.product = NewProduct,
                              !.categoryId = c, !.pc = "product_find_sku"]]
    /\ UNCHANGED <<products, sales, nextSaleId, invoices, categories,
                   nextCategoryId, today, ticks, timeZone>>

\* lines 32-39: product.findUnique by SKU and the early throw
ProductCreateFindSku(r) ==
    /\ req[r].pc = "product_find_sku"
    /\ req' = [req EXCEPT ![r] =
          IF products[req[r].product] # NoProduct
          THEN Fail(r, "BadRequest: product with this SKU already exists")
          ELSE [req[r] EXCEPT !.pc = "product_insert"]]
    /\ UNCHANGED <<products, sales, nextSaleId, invoices, categories,
                   nextCategoryId, today, ticks, timeZone, ops, serial>>

\* lines 41-57: product.create; the SKU may have been taken since it was
\* looked up (Prisma P2002) and the category deleted since it was read
\* (Prisma P2003)
ProductCreateInsert(r) ==
    /\ req[r].pc = "product_insert"
    /\ LET p == req[r].product
       IN  IF products[p] # NoProduct
           THEN /\ req' = [req EXCEPT ![r] = Fail(r, "P2002: unique constraint failed")]
                /\ UNCHANGED products
           ELSE IF categories[req[r].categoryId] = NoCategory
           THEN /\ req' = [req EXCEPT ![r] = Fail(r, "P2003: foreign key constraint failed")]
                /\ UNCHANGED products
           ELSE /\ products' = [products EXCEPT ![p] =
                                  [quantity |-> 1, price |-> 3, isActive |-> TRUE,
                                   categoryId |-> req[r].categoryId]]
                /\ req' = [req EXCEPT ![r] = [req[r] EXCEPT !.pc = "done"]]
    /\ UNCHANGED <<sales, nextSaleId, invoices, categories, nextCategoryId,
                   today, ticks, timeZone, ops, serial>>

(***************************************************************************)
(* CategoriesService.remove                                                *)
(***************************************************************************)
\* lines 89-96: category.findUnique and the early throw
CategoryRemoveFind(r) ==
    /\ Begin(r)
    /\ \E c \in CategoryIds :
         req' = [req EXCEPT ![r] =
            IF categories[c] = NoCategory
            THEN [Idle EXCEPT !.op = "removeCategory", !.categoryId = c, !.pc = "failed",
                              !.err = "NotFound: category not found"]
            ELSE [Idle EXCEPT !.op = "removeCategory", !.categoryId = c,
                              !.pc = "category_count"]]
    /\ UNCHANGED <<products, sales, nextSaleId, invoices, categories,
                   nextCategoryId, today, ticks, timeZone>>

\* lines 99-101: product.count where categoryId = c
ProductCount(productRows, c) ==
    Cardinality({p \in ProductIds : productRows[p] # NoProduct /\ productRows[p].categoryId = c})

\* mutant of HasProducts: a category with a single product is let through
HasProducts_MoreThanOne(productCount) == productCount > 1

\* line 103: productCount > 0
HasProducts(productCount) == productCount > 0

\* lines 98-105: the products of the category are counted and the call
\* throws when there is one
CategoryRemoveCount(r) ==
    /\ req[r].pc = "category_count"
    /\ LET productCount == ProductCount(products, req[r].categoryId)
       IN  req' = [req EXCEPT ![r] =
              IF HasProducts(productCount)
              THEN [Fail(r, "BadRequest: cannot delete category that has products")
                       EXCEPT !.n = productCount]
              ELSE [req[r] EXCEPT !.n = productCount, !.pc = "category_delete"]]
    /\ UNCHANGED <<products, sales, nextSaleId, invoices, categories,
                   nextCategoryId, today, ticks, timeZone, ops, serial>>

\* lines 107-111: category.delete; the row may have been deleted since it
\* was read (Prisma P2025) and a product may reference it since the count
\* (Prisma P2003)
CategoryRemoveDelete(r) ==
    /\ req[r].pc = "category_delete"
    /\ LET c == req[r].categoryId
       IN  IF categories[c] = NoCategory
           THEN /\ req' = [req EXCEPT ![r] = Fail(r, "P2025: category to delete not found")]
                /\ UNCHANGED categories
           ELSE IF ProductReferences(products, c)
           THEN /\ req' = [req EXCEPT ![r] = Fail(r, "P2003: foreign key constraint failed")]
                /\ UNCHANGED categories
           ELSE /\ categories' = [categories EXCEPT ![c] = NoCategory]
                /\ req' = [req EXCEPT ![r] = [req[r] EXCEPT !.pc = "done"]]
    /\ UNCHANGED <<products, sales, nextSaleId, invoices, nextCategoryId, today,
                   ticks, timeZone, ops, serial>>

(***************************************************************************)
(* ProductsService.update and ProductsService.toggleProductStatus          *)
(***************************************************************************)
\* UpdateProductDto: every field is optional.  Of the columns the model
\* keeps, a body may name price, quantity (both >= 0), isActive and
\* categoryId; no body names a SKU or a supplier.
UpdateProductDtos ==
    {[price |-> <<9>>, quantity |-> Absent, isActive |-> Absent, categoryId |-> Absent],
     [price |-> Absent, quantity |-> Absent, isActive |-> Absent, categoryId |-> <<"k3">>],
     [price |-> <<9>>, quantity |-> <<7>>, isActive |-> <<FALSE>>, categoryId |-> <<"k2">>]}

\* line 134: `if (updateProductDto.categoryId)`, false for an absent field
\* and for the empty string
NamesCategory(dto) == dto.categoryId # Absent /\ dto.categoryId[1] # ""

\* product.update data: updateProductDto; every column the body names is
\* written, the others are kept
ApplyProductUpdate(product, dto) ==
    [product EXCEPT !.price = OrDefault(dto.price, @),
                    !.quantity = OrDefault(dto.quantity, @),
                    !.isActive = OrDefault(dto.isActive, @),
                    !.categoryId = OrDefault(dto.categoryId, @)]

\* lines 113-131: product.findUnique and the early throw; the SKU is not
\* looked up for a body that names none.  The call is sent one of dtos.
ProductUpdateFindWith(r, dtos) ==
    /\ Begin(r)
    /\ \E id \in ProductIds, dto \in dtos :
         LET call == [Idle EXCEPT !.op = "updateProduct", !.product = id, !.dto = dto]
         IN  req' = [req EXCEPT ![r] =
                IF products[id] = NoProduct
                THEN [call EXCEPT !.pc = "failed", !.err = "NotFound: product not found"]
                ELSE IF NamesCategory(dto)
                THEN [call EXCEPT !.pc = "product_update_category"]
                ELSE [call EXCEPT !.pc = "product_update_write"]]
    /\ UNCHANGED <<products, sales, nextSaleId, invoices, categories,
                   nextCategoryId, today, ticks, timeZone>>

ProductUpdateFind(r) == ProductUpdateFindWith(r, UpdateProductDtos)

\* the update calls that set the quantity of a product: the body names
\* the quantity only, a stock count entered by hand
ProductUpdateFindCount(r) ==
    ProductUpdateFindWith(r, {[price |-> Absent, quantity |-> <<1>>,
                               isActive |-> Absent, categoryId |-> Absent]})

\* the update calls that set the price of a product: the body names the
\* price only
ProductUpdateFindPrice(r) ==
    ProductUpdateFindWith(r, {[price |-> <<9>>, quantity |-> Absent,
                               isActive |-> Absent, categoryId |-> Absent]})

\* lines 133-142: category.findUnique for a body that names a category,
\* and the early throw
ProductUpdateCategory(r) ==
    /\ req[r].pc = "product_update_category"
    /\ req' = [req EXCEPT ![r] =
          IF categories[req[r].dto.categoryId[1]] = NoCategory
          THEN Fail(r, "BadRequest: category not found")
          ELSE [req[r] EXCEPT !.pc = "product_update_write"]]
    /\ UNCHANGED <<products, sales, nextSaleId, invoices, categories,
                   nextCategoryId, today, ticks, timeZone, ops, serial>>

\* lines 155-168: product.update writes the body; the row may have been
\* deleted since it was read (Prisma P2025) and the category named deleted
\* since it was looked up (Prisma P2003)
ProductUpdateWrite(r) ==
    /\ req[r].pc = "product_update_write"
    /\ LET p == req[r].product
           dto == req[r].dto
       IN  IF products[p] = NoProduct
           THEN /\ req' = [req EXCEPT ![r] = Fail(r, "P2025: product to update not found")]
                /\ UNCHANGED products
           ELSE IF dto.categoryId # Absent /\ categories[dto.categoryId[1]] = NoCategory
           THEN /\ req' = [req EXCEPT ![r] = Fail(r, "P2003: foreign key constraint failed")]
                /\ UNCHANGED products
           ELSE /\ products' = [products EXCEPT ![p] = ApplyProductUpdate(@, dto)]
                /\ req' = [req EXCEPT ![r] =
                     [req[r] EXCEPT
                        !.delta[p] = @ + (products'[p].quantity - products[p].quantity),
                        !.pc = "done"]]
    /\ UNCHANGED <<sales, nextSaleId, invoices, categories, nextCategoryId,
                   today, ticks, timeZone, ops, serial>>

\* lines 187-194: product.findUnique and the early throw
ProductToggleFind(r) ==
    /\ Begin(r)
    /\ \E id \in ProductIds :
         LET call == [Idle EXCEPT !.op = "toggleProduct", !.product = id]
         IN  req' = [req EXCEPT ![r] =
                IF products[id] = NoProduct
                THEN [call EXCEPT !.pc = "failed", !.err = "NotFound: product not found"]
                ELSE [call EXCEPT !.isActive = products[id].isActive,
                                  !.pc = "product_toggle_update"]]
    /\ UNCHANGED <<products, sales, nextSaleId, invoices, categories,
                   nextCategoryId, today, ticks, timeZone>>

\* lines 196-209: product.update writes the negation of the isActive that
\* was read; the row may have been deleted since (Prisma P2025)
ProductToggleUpdate(r) ==
    /\ req[r].pc = "product_toggle_update"
    /\ LET p == req[r].product
       IN  IF products[p] = NoProduct
           THEN /\ req' = [req EXCEPT ![r] = Fail(r, "P2025: product to update not found")]
                /\ UNCHANGED products
           ELSE /\ products' = [products EXCEPT ![p].isActive = ~req[r].isActive]
                /\ req' = [req EXCEPT ![r] = [req[r] EXCEPT !.pc = "done"]]
    /\ UNCHANGED <<sales, nextSaleId, invoices, categories, nextCategoryId,
                   today, ticks, timeZone, ops, serial>>

(***************************************************************************)
(* CategoriesService.create, update and toggleCategoryStatus               *)
(***************************************************************************)
\* category.findUnique where name: some row has the name
NameTaken(rows, name) ==
    \E c \in StoredCategoryIds : rows[c] # NoCategory /\ rows[c].name = name

\* CreateCategoryDto: a name, that of a category of the initial catalog or
\* a new one, and an optional isActive (the description is not kept)
CreateCategoryDtos == [name : {"n1", "n3"}, isActive : {Absent, <<FALSE>>}]

\* lines 9-19: category.findUnique by name and the early throw.  The store
\* has an id left for every call that may insert a row.
CategoryCreateStart(r) ==
    /\ Begin(r)
    /\ (nextCategoryId - 1) + Cardinality({q \in Reqs : req[q].pc = "category_insert"})
          < Len(GeneratedCategoryIds)
    /\ \E dto \in CreateCategoryDtos :
         LET call == [Idle EXCEPT !.op = "createCategory", !.dto = dto, !.name = dto.name]
         IN  req' = [req EXCEPT ![r] =
                IF NameTaken(categories, dto.name)
                THEN [call EXCEPT !.pc = "failed",
                                  !.err = "BadRequest: category with this name already exists"]
                ELSE [call EXCEPT !.pc = "category_insert"]]
    /\ UNCHANGED <<products, sales, nextSaleId, invoices, categories,
                   nextCategoryId, today, ticks, timeZone>>

\* lines 21-29: category.create, isActive being true when the body names
\* none (line 10); the name may have been taken since it was looked up
\* (Prisma P2002)
CategoryCreateInsert(r) ==
    /\ req[r].pc = "category_insert"
    /\ IF NameTaken(categories, req[r].dto.name)
       THEN /\ req' = [req EXCEPT ![r] = Fail(r, "P2002: unique constraint failed")]
            /\ UNCHANGED <<categories, nextCategoryId>>
       ELSE /\ categories' = [categories EXCEPT ![GeneratedCategoryIds[nextCategoryId]] =
                                [name |-> req[r].dto.name,
                                 isActive |-> OrDefault(req[r].dto.isActive, TRUE)]]
            /\ nextCategoryId' = nextCategoryId + 1
            /\ req' = [req EXCEPT ![r] =
                 [req[r] EXCEPT !.categoryId = GeneratedCategoryIds[nextCategoryId],
                                !.pc = "done"]]
    /\ UNCHANGED <<products, sales, nextSaleId, invoices, today, ticks,
                   timeZone, ops, serial>>

\* UpdateCategoryDto: optional name and isActive (the description is not
\* kept).  The bodies sent: one that sets isActive, one that renames.
UpdateCategoryDtos ==
    {[name |-> Absent, isActive |-> <<FALSE>>],
     [name |-> <<"n2">>, isActive |-> Absent]}

\* line 71: `updateCategoryDto.name && updateCategoryDto.name !==
\* category.name`
Renames(category, dto) ==
    dto.name # Absent /\ dto.name[1] # "" /\ dto.name[1] # category.name

\* category.update data: updateCategoryDto; every column the body names is
\* written, the others are kept
ApplyCategoryUpdate(category, dto) ==
    [category EXCEPT !.name = OrDefault(dto.name, @),
                     !.isActive = OrDefault(dto.isActive, @)]

\* lines 61-71: category.findUnique and the early throw
CategoryUpdateFind(r) ==
    /\ Begin(r)
    /\ \E c \in CategoryIds, dto \in UpdateCategoryDtos :
         LET call == [Idle EXCEPT !.op = "updateCategory", !.categoryId = c, !.dto = dto]
         IN  req' = [req EXCEPT ![r] =
                IF categories[c] = NoCategory
                THEN [call EXCEPT !.pc = "failed", !.err = "NotFound: category not found"]
                ELSE IF Renames(categories[c], dto)
                THEN [call EXCEPT !.pc = "category_update_name"]
                ELSE [call EXCEPT !.pc = "category_update_write"]]
    /\ UNCHANGED <<products, sales, nextSaleId, invoices, categories,
                   nextCategoryId, today, ticks, timeZone>>

\* lines 72-78: category.findUnique by the new name and the early throw
CategoryUpdateName(r) ==
    /\ req[r].pc = "category_update_name"
    /\ req' = [req EXCEPT ![r] =
          IF NameTaken(categories, req[r].dto.name[1])
          THEN Fail(r, "BadRequest: category with this name already exists")
          ELSE [req[r] EXCEPT !.pc = "category_update_write"]]
    /\ UNCHANGED <<products, sales, nextSaleId, invoices, categories,
                   nextCategoryId, today, ticks, timeZone, ops, serial>>

\* lines 81-86: category.update writes the body; the row may have been
\* deleted since it was read (Prisma P2025) and the new name taken by
\* another row since it was looked up (Prisma P2002)
CategoryUpdateWrite(r) ==
    /\ req[r].pc = "category_update_write"
    /\ LET c == req[r].categoryId
           dto == req[r].dto
       IN  IF categories[c] = NoCategory
           THEN /\ req' = [req EXCEPT ![r] = Fail(r, "P2025: category to update not found")]
                /\ UNCHANGED categories
           ELSE IF /\ dto.name # Absent
                   /\ NameTaken([categories EXCEPT ![c] = NoCategory], dto.name[1])
           THEN /\ req' = [req EXCEPT ![r] = Fail(r, "P2002: unique constraint failed")]
                /\ UNCHANGED categories
           ELSE /\ categories' = [categories EXCEPT ![c] = ApplyCategoryUpdate(@, dto)]
                /\ req' = [req EXCEPT ![r] = [req[r] EXCEPT !.pc = "done"]]
    /\ UNCHANGED <<products, sales, nextSaleId, invoices, nextCategoryId,
                   today, ticks, timeZone, ops, serial>>

\* lines 114-121: category.findUnique and the early throw
CategoryToggleFind(r) ==
    /\ Begin(r)
    /\ \E c \in CategoryIds :
         LET call == [Idle EXCEPT !.op = "toggleCategory", !.categoryId = c]
         IN  req' = [req EXCEPT ![r] =
                IF categories[c] = NoCategory
                THEN [call EXCEPT !.pc = "failed", !.err = "NotFound: category not found"]
                ELSE [call EXCEPT !.isActive = categories[c].isActive,
                                  !.pc = "category_toggle_update"]]
    /\ UNCHANGED <<products, sales, nextSaleId, invoices, categories,
                   nextCategoryId, today, ticks, timeZone>>

\* lines 123-128: category.update writes the negation of the isActive that
\* was read; the row may have been deleted since (Prisma P2025)
CategoryToggleUpdate(r) ==
    /\ req[r].pc = "category_toggle_update"
    /\ LET c == req[r].categoryId
       IN  IF categories[c] = NoCategory
           THEN /\ req' = [req EXCEPT ![r] = Fail(r, "P2025: category to update not found")]
                /\ UNCHANGED categories
           ELSE /\ categories' = [categories EXCEPT ![c].isActive = ~req[r].isActive]
                /\ req' = [req EXCEPT ![r] = [req[r] EXCEPT !.pc = "done"]]
    /\ UNCHANGED <<products, sales, nextSaleId, invoices, nextCategoryId,
                   today, ticks, timeZone, ops, serial>>

(***************************************************************************)
(* ReportsService.getSalesReport, called with a query object.  Time is     *)
(* counted in hours since 1970-01-01T00:00Z, DayLength of them to a day.   *)
(***************************************************************************)
DayLength == 24

\* the number of days from 1970-01-01 to a date of the calendar; a day
\* past the end of its month counts on into the next month
DayNumber(date) ==
    LET y == IF date.month <= 2 THEN date.year - 1 ELSE date.year
        era == y \div 400
        yearOfEra == y - (era * 400)
        monthFromMarch == IF date.month > 2 THEN date.month - 3 ELSE date.month + 9
        dayOfYear == (((153 * monthFromMarch) + 2) \div 5) + date.day - 1
        dayOfEra == (yearOfEra * 365) + (yearOfEra \div 4) - (yearOfEra \div 100)
                       + dayOfYear
    IN  (era * 146097) + dayOfEra - 719468

\* new Date(str).getTime() for a date string yyyy-mm-dd: midnight UTC of
\* the day, NaN for a string that is not a date
DateTime(str) ==
    LET fields == Split(str, "-")
    IN  IF Len(fields) # 3 \/ \E k \in 1..Len(fields) : ParseInt(fields[k]).nan
        THEN [nan |-> TRUE, value |-> 0]
        ELSE IF ParseDate(str).month \notin 1..12 \/ ParseDate(str).day \notin 1..31
        THEN [nan |-> TRUE, value |-> 0]
        ELSE [nan |-> FALSE, value |-> DayNumber(ParseDate(str)) * DayLength]

\* line 67: end.setHours(23, 59, 59, 999) sets the hours of the local
\* time, in a process whose clock is zone hours ahead of UTC: the last hour
\* of the local day the instant falls on
EndOfDay(instant, zone) ==
    ((((instant + zone) \div DayLength) * DayLength) + (DayLength - 1)) - zone

\* SalesReportQueryDto: optional startDate and endDate strings and an
\* optional category id; "not-an-id" stands for a string that is neither a
\* UUID nor a CUID, the ids of StoredCategoryIds for well-formed ones
\* (lines 41-46: the two format tests).
\* The date ranges the reports are asked for:
DateRanges ==
    LET none == [present |-> FALSE, value |-> <<>>]
        first == [present |-> TRUE,
                  value |-> <<"2", "0", "2", "4", "-", "1", "2", "-", "0", "1">>]
        second == [present |-> TRUE,
                   value |-> <<"2", "0", "2", "4", "-", "1", "2", "-", "0", "2">>]
        soon == [present |-> TRUE, value |-> <<"s", "o", "o", "n">>]
    IN  {[startDate |-> none, endDate |-> none],
         [startDate |-> none, endDate |-> second],
         [startDate |-> second, endDate |-> none],
         [startDate |-> first, endDate |-> first],
         [startDate |-> first, endDate |-> second],
         [startDate |-> second, endDate |-> second],
         [startDate |-> soon, endDate |-> second],
         [startDate |-> first, endDate |-> soon]}


\* lines 29-46: the first check, of those made before any read of the
\* store, that the query fails, "" when it passes them
QueryError(startDate, endDate, category) ==
    IF Truthy(startDate) /\ DateTime(startDate.value).nan
    THEN "BadRequest: invalid start date format"
    ELSE IF Truthy(endDate) /\ DateTime(endDate.value).nan
    THEN "BadRequest: invalid end date format"
    ELSE IF category # "" /\ category \notin StoredCategoryIds
    THEN "BadRequest: invalid category ID format"
    ELSE ""

\* lines 58-86: the where clause of a report, in a process of time zone
\* zone: new Date() is noon (UTC) of the third day of the month, the default
\* range is the last 30 days, the end is moved to the end of its local day
WhereClause(startDate, endDate, category, zone) ==
    LET now == (DayNumber([year |-> today.year, month |-> today.month, day |-> 3])
                   * DayLength) + 12
    IN  [start |-> IF Truthy(startDate) THEN DateTime(startDate.value).value
                   ELSE now - (30 * DayLength),
         end |-> EndOfDay(IF Truthy(endDate) THEN DateTime(endDate.value).value
                          ELSE now,
                          zone),
         category |-> category]

\* lines 69-86: a sale row satisfies the where clause
Matches(sale, productRows, where) ==
    /\ sale.status = "COMPLETED"
    /\ sale.createdAt >= where.start
    /\ sale.createdAt <= where.end
    /\ where.category # "" =>
          \E k \in 1..Len(sale.items) :
             /\ productRows[sale.items[k].productId] # NoProduct
             /\ productRows[sale.items[k].productId].categoryId = where.category

\* lines 89-101: sale.aggregate over the rows that satisfy the where
\* clause, up to sale id n: _count.id and _sum.finalAmount (NULL, read as 0,
\* when there is no row)
RECURSIVE Aggregate(_, _, _, _)
Aggregate(saleRows, productRows, where, n) ==
    IF n = 0 THEN [totalSales |-> 0, totalRevenue |-> 0, totalItems |-> 0]
    ELSE LET rest == Aggregate(saleRows, productRows, where, n - 1)
         IN  IF saleRows[n] # NoSale /\ Matches(saleRows[n], productRows, where)
             THEN [rest EXCEPT !.totalSales = @ + 1,
                               !.totalRevenue = @ + saleRows[n].finalAmount]
             ELSE rest

\* sum of the quantities of a list of sale items
RECURSIVE SumQuantity(_)
SumQuantity(items) ==
    IF items = <<>> THEN 0 ELSE Head(items).quantity + SumQuantity(Tail(items))

\* lines 104-111: saleItem.aggregate, _sum.quantity over the items of the
\* sales that satisfy the where clause, up to sale id n
RECURSIVE AggregateItems(_, _, _, _)
AggregateItems(saleRows, productRows, where, n) ==
    IF n = 0 THEN 0
    ELSE AggregateItems(saleRows, productRows, where, n - 1)
         + (IF saleRows[n] # NoSale /\ Matches(saleRows[n], productRows, where)
            THEN SumQuantity(saleRows[n].items) ELSE 0)

\* lines 21-47 and 58-86: the dates and the form of the category id are
\* checked; a query that names a category goes on to look it up, for any
\* other the where clause is built
ReportStart(r) ==
    /\ Begin(r)
    /\ \E range \in DateRanges, category \in {"", "k1", "k3", "not-an-id"} :
         LET startDate == range.startDate
             endDate == range.endDate
             e == QueryError(startDate, endDate, category)
             call == [Idle EXCEPT !.op = "salesReport",
                         !.dto = [startDate |-> startDate, endDate |-> endDate,
                                  category |-> category]]
         IN  req' = [req EXCEPT ![r] =
                IF e # "" THEN [call EXCEPT !.pc = "failed", !.err = e]
                ELSE IF category # "" THEN [call EXCEPT !.pc = "report_category"]
                ELSE [call EXCEPT !.where = WhereClause(startDate, endDate, category,
                                                         timeZone),
                                  !.pc = "report_summary"]]
    /\ UNCHANGED <<products, sales, nextSaleId, invoices, categories,
                   nextCategoryId, today, ticks, timeZone>>

\* lines 49-86: category.findUnique; the call fails when there is no such
\* category, otherwise the where clause is built
ReportCategory(r) ==
    /\ req[r].pc = "report_category"
    /\ req' = [req EXCEPT ![r] =
          IF categories[req[r].dto.category] = NoCategory
          THEN [req[r] EXCEPT !.pc = "failed",
                              !.err = "BadRequest: category not found"]
          ELSE [req[r] EXCEPT
                   !.where = WhereClause(req[r].dto.startDate, req[r].dto.endDate,
                                         req[r].dto.category, timeZone),
                   !.pc = "report_summary"]]
    /\ UNCHANGED <<products, sales, nextSaleId, invoices, categories,
                   nextCategoryId, today, ticks, timeZone, ops, serial>>

\* lines 89-101: the overall summary
ReportSummary(r) ==
    /\ req[r].pc = "report_summary"
    /\ req' = [req EXCEPT ![r] =
          [req[r] EXCEPT !.summary = Aggregate(sales, products, req[r].where, MaxOps),
                         !.pc = "report_items"]]
    /\ UNCHANGED <<products, sales, nextSaleId, invoices, categories,
                   nextCategoryId, today, ticks, timeZone, ops, serial>>

\* lines 104-114: the total of the items sold completes the summary of the
\* response; getDailySalesSummary is entered
ReportTotalItems(r) ==
    /\ req[r].pc = "report_items"
    /\ req' = [req EXCEPT ![r] =
          [req[r] EXCEPT
             !.summary.totalItems = AggregateItems(sales, products, req[r].where, MaxOps),
             !.pc = "report_daily"]]
    /\ UNCHANGED <<products, sales, nextSaleId, invoices, categories,
                   nextCategoryId, today, ticks, timeZone, ops, serial>>

\* The four sections that follow the summary (dailySummary,
\* topSellingProducts, categoryBreakdown, paymentMethodStats) are read from
\* the store one awaited call after another.  The rows they return go into
\* sections of the response that the model does not keep, so each of these
\* steps leaves everything but the position of the call as it is.

\* lines 114-117 and 145-202: $queryRaw of getDailySalesSummary;
\* getTopSellingProducts is entered
ReportDailySales(r) ==
    /\ req[r].pc = "report_daily"
    /\ req' = [req EXCEPT ![r] = [req[r] EXCEPT !.pc = "report_top_products"]]
    /\ UNCHANGED <<products, sales, nextSaleId, invoices, categories,
                   nextCategoryId, today, ticks, timeZone, ops, serial>>

\* lines 204-226: saleItem.groupBy of getTopSellingProducts
ReportTopProducts(r) ==
    /\ req[r].pc = "report_top_products"
    /\ req' = [req EXCEPT ![r] = [req[r] EXCEPT !.pc = "report_product_details"]]
    /\ UNCHANGED <<products, sales, nextSaleId, invoices, categories,
                   nextCategoryId, today, ticks, timeZone, ops, serial>>

\* lines 227-252 and 117-120: product.findMany of getTopSellingProducts;
\* getCategorySalesBreakdown is entered
ReportProductDetails(r) ==
    /\ req[r].pc = "report_product_details"
    /\ req' = [req EXCEPT ![r] = [req[r] EXCEPT !.pc = "report_category_breakdown"]]
    /\ UNCHANGED <<products, sales, nextSaleId, invoices, categories,
                   nextCategoryId, today, ticks, timeZone, ops, serial>>

\* lines 260-288, 120-123 and 290-311: $queryRaw of
\* getCategorySalesBreakdown; getPaymentMethodStats is entered
ReportCategoryBreakdown(r) ==
    /\ req[r].pc = "report_category_breakdown"
    /\ req' = [req EXCEPT ![r] = [req[r] EXCEPT !.pc = "report_payment_stats"]]
    /\ UNCHANGED <<products, sales, nextSaleId, invoices, categories,
                   nextCategoryId, today, ticks, timeZone, ops, serial>>

\* lines 313-337 and 123-142: sale.groupBy of getPaymentMethodStats; the
\* response is returned
ReportPaymentStats(r) ==
    /\ req[r].pc = "report_payment_stats"
    /\ req' = [req EXCEPT ![r] = [req[r] EXCEPT !.pc = "done"]]
    /\ UNCHANGED <<products, sales, nextSaleId, invoices, categories,
                   nextCategoryId, today, ticks, timeZone, ops, serial>>

\* the calendar month changes.  generateInvoiceNumber reads the clock when
\* it is entered, so a change matters to the calls that enter it later: it
\* is taken while a call that has read the clock waits for its lookup (a
\* change at a later moment, before the next read, leads to the same
\* behaviours).
Tick ==
    /\ ticks < MaxTicks
    /\ \E r \in Reqs : req[r].pc = "invoice_generate"
    /\ ticks' = ticks + 1
    /\ today' = IF today.month = 12 THEN [year |-> today.year + 1, month |-> 1]
                ELSE [year |-> today.year, month |-> today.month + 1]
    /\ UNCHANGED <<products, sales, nextSaleId, invoices, categories,
                   nextCategoryId, timeZone, req, ops, serial>>

\* the catalog the behaviour starts from: stock and price of each product
InitialQuantity(p) == IF p = "p1" THEN InitStock ELSE InitStock - 1

InitialPrice(p) == IF p = "p1" THEN 5 ELSE 3

\* every product of the catalog is in the first category; the second
\* category has no product
InitialCategory(p) == "k1"

\* the categories of the initial catalog, named n1 and n2
InitialCategories ==
    [c \in StoredCategoryIds |->
        IF c \in Categories
        THEN [name |-> IF c = "k1" THEN "n1" ELSE "n2", isActive |-> TRUE]
        ELSE NoCategory]

Init ==
    /\ products = [p \in ProductIds |->
                     IF p \in Products
                     THEN [quantity |-> InitialQuantity(p), price |-> InitialPrice(p),
                           isActive |-> TRUE, categoryId |-> InitialCategory(p)]
                     ELSE NoProduct]
    /\ sales = [s \in SaleIds |-> NoSale]
    /\ nextSaleId = 1
    /\ invoices = <<>>
    /\ categories = InitialCategories
    /\ nextCategoryId = 1
    /\ today = [year |-> 2024, month |-> 12]
    /\ ticks = 0
    /\ timeZone = 0
    /\ req = [r \in Reqs |-> Idle]
    /\ ops = 0
    /\ serial = TRUE

Next ==
    \/ Tick
    \/ \E r \in Reqs :
        \/ CreateStart(r)
        \/ CreateFindProduct(r)
        \/ CreateDecrement(r)
        \/ CreateSale(r)
        \/ CancelFind(r)
        \/ CancelIncrement(r)
        \/ CancelUpdate(r)
        \/ RemoveFind(r)
        \/ RemoveTransaction(r)
        \/ InvoiceStart(r)
        \/ InvoiceGenerate(r)
        \/ InvoiceCreate(r)

Spec == Init /\ [][Next]_vars

\* the invoice engine alone: createInvoice, updateInvoiceStatus and
\* deleteInvoice calls within one month
InvoiceNext ==
    \E r \in Reqs :
        \/ InvoiceStart(r)
        \/ InvoiceGenerate(r)
        \/ InvoiceCreate(r)
        \/ UpdateStatusFind(r)
        \/ UpdateStatusUpdate(r)
        \/ DeleteInvoiceFind(r)
        \/ DeleteInvoiceUpdate(r)

InvoiceSpec == Init /\ [][InvoiceNext]_vars

\* a single slot: a call starts only when the one before it has ended
OneAtATime == {"r1"}

\* the sale operations, one call after another: create (with item
\* discounts), update, updateSaleStatus, cancelSale and remove, and the
\* product update calls that change a price
SaleOpsNext ==
    \E r \in OneAtATime :
        \/ ProductUpdateFindPrice(r)
        \/ ProductUpdateWrite(r)
        \/ CreateStart(r)
        \/ CreateFindDiscounted(r)
        \/ CreateDecrement(r)
        \/ CreateSale(r)
        \/ UpdateSaleFind(r)
        \/ UpdateSaleUpdate(r)
        \/ UpdateSaleStatusFind(r)
        \/ UpdateSaleStatusUpdate(r)
        \/ CancelFind(r)
        \/ CancelIncrement(r)
        \/ CancelUpdate(r)
        \/ RemoveFind(r)
        \/ RemoveTransaction(r)

SaleOpsSpec == Init /\ [][SaleOpsNext]_vars

\* the stock of the products: updateStock calls running concurrently with
\* each other and with product update, sale create and cancelSale calls
StockNext ==
    \E r \in Reqs :
        \/ UpdateStockFind(r)
        \/ UpdateStockUpdate(r)
        \/ ProductUpdateFindCount(r)
        \/ ProductUpdateWrite(r)
        \/ CreateStart(r)
        \/ CreateFindProduct(r)
        \/ CreateDecrement(r)
        \/ CreateSale(r)
        \/ CancelFind(r)
        \/ CancelIncrement(r)
        \/ CancelUpdate(r)

StockSpec == Init /\ [][StockNext]_vars

\* the products of the catalog: product create, toggleProductStatus and
\* remove calls running concurrently with each other and with sale create
\* calls
CatalogNext ==
    \E r \in Reqs :
        \/ ProductCreateStart(r)
        \/ ProductCreateFindSku(r)
        \/ ProductCreateInsert(r)
        \/ ProductToggleFind(r)
        \/ ProductToggleUpdate(r)
        \/ ProductRemoveFind(r)
        \/ ProductRemoveDelete(r)
        \/ CreateStart(r)
        \/ CreateFindProduct(r)
        \/ CreateDecrement(r)
        \/ CreateSale(r)

CatalogSpec == Init /\ [][CatalogNext]_vars

\* the categories of the catalog: category create, update,
\* toggleCategoryStatus and remove calls running concurrently with each
\* other and with product create, update and remove calls
CategoryNext ==
    \E r \in Reqs :
        \/ CategoryCreateStart(r)
        \/ CategoryCreateInsert(r)
        \/ CategoryUpdateFind(r)
        \/ CategoryUpdateName(r)
        \/ CategoryUpdateWrite(r)
        \/ CategoryToggleFind(r)
        \/ CategoryToggleUpdate(r)
        \/ CategoryRemoveFind(r)
        \/ CategoryRemoveCount(r)
        \/ CategoryRemoveDelete(r)
        \/ ProductCreateStart(r)
        \/ ProductCreateFindSku(r)
        \/ ProductCreateInsert(r)
        \/ ProductUpdateFind(r)
        \/ ProductUpdateCategory(r)
        \/ ProductUpdateWrite(r)
        \/ ProductRemoveFind(r)
        \/ ProductRemoveDelete(r)

CategorySpec == Init /\ [][CategoryNext]_vars

\* the stores the reports are run on: one product in each category, a
\* first sale of any status, made at noon (UTC) of the first, second or third
\* day of the month (the same day of the calendar in every zone of
\* TimeZones), of one unit of either product or of both, and possibly a
\* second, COMPLETED sale of both products made on the second day
ReportProducts ==
    [p \in ProductIds |->
        IF p \in Products
        THEN [quantity |-> InitialQuantity(p), price |-> InitialPrice(p), isActive |-> TRUE,
              categoryId |-> IF p = "p1" THEN "k1" ELSE "k2"]
        ELSE NoProduct]

BothProducts ==
    <<[productId |-> "p1", quantity |-> 1, discount |-> 0],
      [productId |-> "p2", quantity |-> 1, discount |-> 0]>>

ReportSale(status, day, list) ==
    LET items == [k \in 1..Len(list) |->
                     MakeSaleItem(ReportProducts[list[k].productId], list[k])]
        totalAmount == SumTotalPrice(items)
    IN  [status |-> status, items |-> items, customerId |-> "",
         totalAmount |-> totalAmount, discount |-> 0, taxAmount |-> 0,
         finalAmount |-> FinalAmount(totalAmount, 0, 0),
         paymentMethod |-> "CASH", notes |-> "",
         createdAt |-> (DayNumber([year |-> 2024, month |-> 12, day |-> day]) * DayLength)
                          + 12]

ReportSales ==
    {ReportSale(status, day, list) :
        status \in SaleStatus, day \in {1, 2, 3},
        list \in {<<[productId |-> "p1", quantity |-> 1, discount |-> 0]>>,
                  <<[productId |-> "p2", quantity |-> 1, discount |-> 0]>>,
                  BothProducts}}

ReportInit ==
    /\ products = ReportProducts
    /\ \E first \in ReportSales,
          second \in {NoSale, ReportSale("COMPLETED", 2, BothProducts)} :
          sales = [id \in SaleIds |->
                     IF id = 1 THEN first ELSE IF id = 2 THEN second ELSE NoSale]
    /\ nextSaleId = 1 + Cardinality({id \in SaleIds : sales[id] # NoSale})
    /\ invoices = <<>>
    /\ categories = InitialCategories
    /\ nextCategoryId = 1
    /\ today = [year |-> 2024, month |-> 12]
    /\ ticks = 0
    /\ timeZone \in TimeZones
    /\ req = [r \in Reqs |-> Idle]
    /\ ops = 0
    /\ serial = TRUE

\* getSalesReport calls, one after another
ReportNext ==
    \E r \in OneAtATime :
        \/ ReportStart(r)
        \/ ReportCategory(r)
        \/ ReportSummary(r)
        \/ ReportTotalItems(r)
        \/ ReportDailySales(r)
        \/ ReportTopProducts(r)
        \/ ReportProductDetails(r)
        \/ ReportCategoryBreakdown(r)
        \/ ReportPaymentStats(r)

ReportSpec == ReportInit /\ [][ReportNext]_vars

\* a month near the end of its four-digit numbers: the invoices table holds
\* the last rows of December 2024.  The month's earlier rows are left out:
\* their numbers are four digits wide and below these in the text order, so
\* the lookup of generateInvoiceNumber never returns one of them.
LateSequences == <<9997, 9998>>

LateInvoice(sequence) ==
    [invoiceNumber |-> <<"I", "N", "V", "-", "2", "0", "2", "4", "1", "2", "-">>
                          \o NumberToString(sequence),
     customerId |-> "c1", subtotal |-> 3, discount |-> 0, taxAmount |-> 0,
     totalAmount |-> 3, finalAmount |-> 3, status |-> "UNPAID", paidDate |-> NoDate,
     items |-> InvoiceItemRows(<<[quantity |-> 1, unitPrice |-> 3,
                                  discount |-> Absent, taxAmount |-> Absent]>>)]

LateInit ==
    /\ products = [p \in ProductIds |->
                     IF p \in Products
                     THEN [quantity |-> InitialQuantity(p), price |-> InitialPrice(p),
                           isActive |-> TRUE, categoryId |-> InitialCategory(p)]
                     ELSE NoProduct]
    /\ sales = [s \in SaleIds |-> NoSale]
    /\ nextSaleId = 1
    /\ invoices = [k \in 1..Len(LateSequences) |-> LateInvoice(LateSequences[k])]
    /\ categories = InitialCategories
    /\ nextCategoryId = 1
    /\ today = [year |-> 2024, month |-> 12]
    /\ ticks = 0
    /\ timeZone = 0
    /\ req = [r \in Reqs |-> Idle]
    /\ ops = 0
    /\ serial = TRUE

\* createInvoice calls in that month
LateNext ==
    \E r \in Reqs :
        \/ InvoiceStart(r)
        \/ InvoiceGenerate(r)
        \/ InvoiceCreate(r)

LateSpec == LateInit /\ [][LateNext]_vars

\* the role guard alone, run on one request after another
GuardNext == \E r \in Reqs : CanActivate(r)

GuardSpec == Init /\ [][GuardNext]_vars

(***************************************************************************)
(* Claims.                                                                 *)
(***************************************************************************)
\* C1: a sale create call that has failed has left no product quantity
\* changed, and one that has succeeded has decremented every product by
\* the quantities of the sale it inserted: never a decrement without its
\* sale.
C1_CreateAllOrNothing ==
    \A r \in Reqs :
        /\ (req[r].op = "create" /\ req[r].pc = "failed") => req[r].delta = ZeroDelta
        /\ (req[r].op = "create" /\ req[r].pc = "done" /\ sales[req[r].id] # NoSale) =>
              \A p \in Products : req[r].delta[p] = 0 - SumQty(sales[req[r].id].items, p)

\* C2: while the only requests ever started are two sale creations (which
\* may run concurrently), no product's quantity goes below zero.
C2_ConcurrentCreatesNeverOversell ==
    (ops <= 2 /\ \A r \in Reqs : req[r].op \in {"idle", "create"}) =>
        \A p \in Products : products[p].quantity >= 0

\* C3: as long as the create, cancelSale and remove calls run one after
\* another, every product's quantity stays >= 0.
C3_StockNonNegative ==
    serial => \A p \in Products : products[p].quantity >= 0

\* witness of C3: a create, a cancelSale and a remove have run one after
\* another and all three succeeded
C3_Witness ==
    /\ serial
    /\ \E r \in Reqs :
          /\ req[r].op = "remove" /\ req[r].pc = "done"
          /\ req[r].snap.status = "CANCELLED"

\* C4: in a run of calls one after another, a sale create that failed with
\* the insufficient-stock error on an item asking for more than the
\* product's quantity at the start of the call has left that product's
\* quantity as it was.
C4_InsufficientStockLeavesQuantity ==
    \A r \in Reqs :
        (/\ serial
         /\ req[r].op = "create" /\ req[r].pc = "failed"
         /\ req[r].err = "BadRequest: insufficient stock"
         /\ req[r].item.quantity >
               products[req[r].item.productId].quantity - req[r].delta[req[r].item.productId])
        => req[r].delta[req[r].item.productId] = 0

\* C5: the step that completes a cancelSale of a sale read as COMPLETED
\* leaves the call having raised every product's quantity by exactly the
\* sum of the quantities recorded on the sale's items for that product,
\* whatever the quantities were, and leaves the sale CANCELLED.
C5_CancelRestoresRecordedQuantities ==
    [][\A r \in Reqs :
          (/\ req[r].pc = "cancel_update" /\ req'[r].pc = "done"
           /\ req[r].snap.status = "COMPLETED")
          => /\ \A p \in Products :
                   req'[r].delta[p] = SumQty(sales[req[r].id].items, p)
             /\ sales'[req[r].id].status = "CANCELLED"]_vars

\* witness of C5: a cancelSale of a COMPLETED two-item sale has succeeded
\* and has raised one product by two
C5_Witness ==
    \E r \in Reqs :
        /\ req[r].op = "cancel" /\ req[r].pc = "done"
        /\ req[r].snap.status = "COMPLETED"
        /\ Len(req[r].snap.items) = 2
        /\ sales[req[r].id] # NoSale
        /\ sales[req[r].id].status = "CANCELLED"
        /\ \E p \in Products : req[r].delta[p] = 2

\* C6: a cancelSale call on a sale whose status is CANCELLED fails in the
\* step that reads the sale, and that step changes no product and no sale.
C6_CancelOfCancelledMutatesNothing ==
    [][\A r \in Reqs :
          (/\ ops' = ops + 1
           /\ req'[r] # req[r]
           /\ req'[r].op = "cancel"
           /\ sales[req'[r].id] # NoSale
           /\ sales[req'[r].id].status = "CANCELLED")
          => /\ req'[r].pc = "failed"
             /\ req'[r].err = "BadRequest: sale is already cancelled"
             /\ req'[r].delta = ZeroDelta
             /\ products' = products
             /\ sales' = sales]_vars

\* witness of C6: a cancelSale of an already cancelled sale has failed
C6_Witness ==
    \E r \in Reqs :
        /\ req[r].op = "cancel" /\ req[r].pc = "failed"
        /\ req[r].err = "BadRequest: sale is already cancelled"
        /\ sales[req[r].id] # NoSale
        /\ sales[req[r].id].status = "CANCELLED"

\* C7: a cancelSale call that has failed has left no product quantity
\* changed.
C7_CancelAtomic ==
    \A r \in Reqs :
        (req[r].op = "cancel" /\ req[r].pc = "failed") => req[r].delta = ZeroDelta

\* C8: a remove call that has failed has changed no product quantity and a
\* remove call that has succeeded has deleted the sale and has raised each
\* product by the quantities of the items of a sale read as COMPLETED (by
\* nothing for any other status).
C8_RemoveAtomic ==
    \A r \in Reqs :
        /\ (req[r].op = "remove" /\ req[r].pc = "failed") =>
              /\ req[r].delta = ZeroDelta
              /\ req[r].err = "P2025: record not found" => sales[req[r].id] = NoSale
        /\ (req[r].op = "remove" /\ req[r].pc = "done") =>
              /\ sales[req[r].id] = NoSale
              /\ \A p \in Products :
                    req[r].delta[p] = IF req[r].snap.status = "COMPLETED"
                                      THEN SumQty(req[r].snap.items, p) ELSE 0

\* witness of C8: the delete of a remove failed after the closure's
\* increments for a COMPLETED sale, and another remove restored its stock
C8_Witness ==
    \E r1, r2 \in Reqs :
        /\ req[r1].op = "remove" /\ req[r1].pc = "failed"
        /\ req[r1].err = "P2025: record not found"
        /\ req[r1].snap.status = "COMPLETED"
        /\ req[r2].op = "remove" /\ req[r2].pc = "done"
        /\ req[r2].id = req[r1].id
        /\ \E p \in Products : req[r2].delta[p] > 0

\* C9: with calls one after another, after a first call that created a
\* sale of n units of one product the product's quantity is its initial
\* quantity less n and the sale's totalAmount is n times the unit price;
\* after a second call that cancelled that sale the quantity is the
\* initial one again and the sale is CANCELLED.
C9_CreateCancelRoundTrip ==
    \A r \in Reqs :
        /\ (/\ serial /\ ops = 1
            /\ req[r].op = "create" /\ req[r].pc = "done"
            /\ Len(sales[req[r].id].items) = 1
            /\ sales[req[r].id].items[1].discount = 0)
           => LET sale == sales[req[r].id]
                  item == sale.items[1]
              IN  /\ products[item.productId].quantity =
                        InitialQuantity(item.productId) - item.quantity
                  /\ item.unitPrice = products[item.productId].price
                  /\ sale.totalAmount = item.quantity * item.unitPrice
                  /\ sale.status = "COMPLETED"
        /\ (/\ serial /\ ops = 2 /\ nextSaleId = 2
            /\ req[r].op = "cancel" /\ req[r].pc = "done"
            /\ Len(req[r].snap.items) = 1)
           => /\ \A p \in Products : products[p].quantity = InitialQuantity(p)
              /\ sales[req[r].id].status = "CANCELLED"

\* witness of C9: a sale of two units was created and then cancelled
C9_Witness ==
    \E r \in Reqs :
        /\ serial /\ ops = 2 /\ nextSaleId = 2
        /\ req[r].op = "cancel" /\ req[r].pc = "done"
        /\ Len(req[r].snap.items) = 1
        /\ req[r].snap.items[1].quantity = 2
        /\ sales[req[r].id].status = "CANCELLED"

\* the year-month field and the sequence field of an invoice number
InvoiceMonth(invoiceNumber) == Split(invoiceNumber, "-")[2]
InvoiceSequence(invoiceNumber) == ParseInt(Split(invoiceNumber, "-")[3]).value

\* C10: no two invoices have the same invoiceNumber, and of two invoices of
\* the same year-month the one created later has the greater sequence.
C10_InvoiceNumbersUniqueIncreasing ==
    \A j, k \in 1..Len(invoices) :
        j < k =>
            /\ invoices[j].invoiceNumber # invoices[k].invoiceNumber
            /\ InvoiceMonth(invoices[j].invoiceNumber) = InvoiceMonth(invoices[k].invoiceNumber)
               => InvoiceSequence(invoices[j].invoiceNumber)
                     < InvoiceSequence(invoices[k].invoiceNumber)

\* witness of C10: two invoices of one month exist and a concurrent
\* createInvoice that had computed a number already taken was rejected
C10_Witness ==
    /\ \E j, k \in 1..Len(invoices) :
          /\ j < k
          /\ InvoiceMonth(invoices[j].invoiceNumber) = InvoiceMonth(invoices[k].invoiceNumber)
    /\ \E r \in Reqs :
          /\ req[r].op = "invoice" /\ req[r].pc = "failed"
          /\ req[r].err = "P2002: unique constraint failed on invoiceNumber"

\* C11: a createInvoice call that has computed its invoice number always
\* completes successfully: it is never rejected for a number another call
\* has taken, also when two calls of one month computed the same sequence.
C11_ConcurrentInvoicesBothSucceed ==
    \A r \in Reqs :
        (/\ req[r].op = "invoice" /\ req[r].invoiceNumber # <<>>
         /\ req[r].pc \in {"done", "failed"})
        => /\ req[r].pc = "done"
           /\ invoices[req[r].id].invoiceNumber = req[r].invoiceNumber

\* C12: every invoice number is INV-, the year-month, and a sequence of four
\* digits; the first invoice of a month has sequence 0001 and each later
\* invoice of the month has the highest sequence before it plus one.  The
\* first invoice of December 2024 is INV-202412-0001 and the second is
\* INV-202412-0002.
C12_SequenceStartsAtOneAndIncrements ==
    \A k \in 1..Len(invoices) :
        LET number == invoices[k].invoiceNumber
            fields == Split(number, "-")
            earlier == {j \in 1..(k - 1) :
                          InvoiceMonth(invoices[j].invoiceNumber) = InvoiceMonth(number)}
        IN  /\ Len(fields) = 3
            /\ fields[1] = <<"I", "N", "V">>
            /\ Len(fields[3]) = 4
            /\ \A d \in 1..4 : IsDigit(fields[3][d])
            /\ earlier = {} => fields[3] = <<"0", "0", "0", "1">>
            /\ earlier # {} =>
                 \E j \in earlier :
                    /\ InvoiceSequence(number) = InvoiceSequence(invoices[j].invoiceNumber) + 1
                    /\ \A h \in earlier : InvoiceSequence(invoices[h].invoiceNumber)
                                             <= InvoiceSequence(invoices[j].invoiceNumber)
            /\ (fields[2] = <<"2", "0", "2", "4", "1", "2">> /\ Cardinality(earlier) = 0)
                 => number = <<"I", "N", "V", "-", "2", "0", "2", "4", "1", "2", "-",
                               "0", "0", "0", "1">>
            /\ (fields[2] = <<"2", "0", "2", "4", "1", "2">> /\ Cardinality(earlier) = 1)
                 => number = <<"I", "N", "V", "-", "2", "0", "2", "4", "1", "2", "-",
                               "0", "0", "0", "2">>

\* witness of C12: December 2024 has its second invoice, INV-202412-0002
C12_Witness ==
    /\ Len(invoices) >= 2
    /\ today = [year |-> 2024, month |-> 12]
    /\ invoices[1].invoiceNumber[15] = "1"
    /\ invoices[2].invoiceNumber = <<"I", "N", "V", "-", "2", "0", "2", "4", "1", "2", "-",
                                     "0", "0", "0", "2">>

\* the amount a request body gives in an optional field, zero when absent
Given(field) == IF field = <<>> THEN 0 ELSE field[1]

\* the sum of the first n numbers of a sequence
RECURSIVE SumTo(_, _)
SumTo(numbers, n) == IF n = 0 THEN 0 ELSE numbers[n] + SumTo(numbers, n - 1)

\* C16: the invoice a createInvoice call has inserted has subtotal = the sum
\* of quantity x unitPrice over the items of the request, discount = the
\* document-level discount plus the items' discounts, taxAmount = the
\* document-level taxAmount plus the items' taxAmounts, and totalAmount =
\* subtotal - discount + taxAmount; its item rows are the request's items.
C16_InvoiceTotals ==
    \A r \in Reqs :
        (req[r].op = "invoice" /\ req[r].pc = "done") =>
            LET row == invoices[req[r].id]
                dto == req[r].dto
                n == Len(dto.items)
                subtotal == SumTo([k \in 1..n |->
                                     dto.items[k].quantity * dto.items[k].unitPrice], n)
                discount == Given(dto.discount)
                              + SumTo([k \in 1..n |-> Given(dto.items[k].discount)], n)
                tax == Given(dto.taxAmount)
                         + SumTo([k \in 1..n |-> Given(dto.items[k].taxAmount)], n)
            IN  /\ row.subtotal = subtotal
                /\ row.discount = discount
                /\ row.taxAmount = tax
                /\ row.totalAmount = subtotal - discount + tax
                /\ Len(row.items) = n
                /\ \A k \in 1..n :
                      /\ row.items[k].quantity = dto.items[k].quantity
                      /\ row.items[k].unitPrice = dto.items[k].unitPrice
                /\ row.totalAmount =
                      SumTo([k \in 1..n |-> row.items[k].quantity * row.items[k].unitPrice], n)
                         - row.discount + row.taxAmount

\* witness of C16: an invoice of two items with document-level and per-item
\* discount and tax has been inserted: 13 - 2 + 4 = 15
C16_Witness ==
    \E r \in Reqs :
        /\ req[r].op = "invoice" /\ req[r].pc = "done"
        /\ Len(req[r].dto.items) = 2
        /\ Given(req[r].dto.discount) = 1
        /\ Given(req[r].dto.items[1].discount) = 1
        /\ invoices[req[r].id].discount = 2
        /\ invoices[req[r].id].totalAmount = 15

\* C13: the step in which an updateInvoiceStatus call arrives for an invoice
\* whose status is CANCELLED fails the call with the cancelled-invoice
\* error, whatever the target status and paid date, and changes no invoice;
\* and as long as calls run one after another, no step takes an invoice out
\* of CANCELLED.
C13_CancelledIsTerminal ==
    [][/\ \A r \in Reqs :
            (/\ ops' = ops + 1
             /\ req'[r] # req[r]
             /\ req'[r].op = "status"
             /\ FindInvoice(invoices, req'[r].id) # NoInvoice
             /\ FindInvoice(invoices, req'[r].id).status = "CANCELLED")
            => /\ req'[r].pc = "failed"
               /\ req'[r].err = "BadRequest: cannot update status of a cancelled invoice"
               /\ invoices' = invoices
       /\ \A k \in 1..Len(invoices) :
            (serial' /\ invoices[k].status = "CANCELLED")
            => invoices'[k].status = "CANCELLED"]_vars

\* witness of C13: an updateInvoiceStatus call with target PAID on a
\* cancelled invoice has failed and the invoice is still CANCELLED
C13_Witness ==
    \E r \in Reqs :
        /\ serial
        /\ req[r].op = "status" /\ req[r].pc = "failed"
        /\ req[r].status = "PAID"
        /\ req[r].err = "BadRequest: cannot update status of a cancelled invoice"
        /\ invoices[req[r].id].status = "CANCELLED"

\* C14: the step in which a deleteInvoice call arrives for an invoice whose
\* status is PAID fails the call with the paid-invoice error and changes no
\* invoice: the status stays PAID.
C14_DeleteOfPaidFails ==
    [][\A r \in Reqs :
          (/\ ops' = ops + 1
           /\ req'[r] # req[r]
           /\ req'[r].op = "delete"
           /\ FindInvoice(invoices, req'[r].id) # NoInvoice
           /\ FindInvoice(invoices, req'[r].id).status = "PAID")
          => /\ req'[r].pc = "failed"
             /\ req'[r].err = "BadRequest: cannot cancel a paid invoice"
             /\ invoices' = invoices
             /\ invoices'[req'[r].id].status = "PAID"]_vars

\* witness of C14: a deleteInvoice call on a paid invoice has failed and the
\* invoice is still PAID
C14_Witness ==
    \E r \in Reqs :
        /\ req[r].op = "delete" /\ req[r].pc = "failed"
        /\ req[r].err = "BadRequest: cannot cancel a paid invoice"
        /\ invoices[req[r].id].status = "PAID"

\* C15: every invoice whose status is PAID has a paidDate.
C15_PaidHasPaidDate ==
    \A k \in 1..Len(invoices) :
        invoices[k].status = "PAID" => invoices[k].paidDate # NoDate

\* the levels the roles are ordered by
Level == [role \in Roles |->
            IF role = "USER" THEN 1
            ELSE IF role = "CASHIER" THEN 2
            ELSE IF role = "MANAGER" THEN 3
            ELSE IF role = "ADMIN" THEN 4
            ELSE 5]

\* the minimum level among a non-empty list of declared roles
MinimumLevel(declared) ==
    CHOOSE m \in {Level[declared[k]] : k \in 1..Len(declared)} :
        \A k \in 1..Len(declared) : m <= Level[declared[k]]

\* a guard call on a route that declares roles
GuardedCall(r) == req[r].op = "canActivate" /\ req[r].requiredRoles # <<>>

\* C17: an authenticated active user with a role passes a check that
\* declares a non-empty list of roles if and only if the level of the
\* user's role is >= the minimum level among the declared roles; MANAGER
\* passes {CASHIER} and CASHIER fails {ADMIN}.
C17_HierarchicalRoleCheck ==
    \A r \in Reqs :
        (/\ GuardedCall(r)
         /\ req[r].requiredRoles[1] # <<>>
         /\ req[r].user # NoUser
         /\ req[r].user.role # <<>>
         /\ req[r].user.isActive = <<TRUE>>)
        => LET role == req[r].user.role[1]
               declared == req[r].requiredRoles[1]
           IN  /\ req[r].pc \in {"done", "failed"}
               /\ req[r].pc = "done" <=> Level[role] >= MinimumLevel(declared)
               /\ (role = "MANAGER" /\ declared = <<"CASHIER">>) => req[r].pc = "done"
               /\ (role = "CASHIER" /\ declared = <<"ADMIN">>) => req[r].pc = "failed"

\* witness of C17: an active MANAGER has passed a check declaring ADMIN and
\* CASHIER, whose minimum level is CASHIER's
C17_Witness ==
    \E r \in Reqs :
        /\ GuardedCall(r) /\ req[r].pc = "done"
        /\ req[r].user = [role |-> <<"MANAGER">>, isActive |-> <<TRUE>>]
        /\ req[r].requiredRoles = << <<"ADMIN", "CASHIER">> >>

\* C18: a user whose isActive is not true (false or missing) is denied by
\* every check that declares roles, whatever the user's role and whatever
\* the roles declared.
C18_InactiveUserDenied ==
    \A r \in Reqs :
        (/\ GuardedCall(r)
         /\ req[r].user # NoUser
         /\ req[r].user.isActive # <<TRUE>>)
        => /\ req[r].pc = "failed"
           /\ req[r].err = "Forbidden"

\* witness of C18: a SUPER_ADMIN whose isActive is missing has been denied
\* by a check declaring USER
C18_Witness ==
    \E r \in Reqs :
        /\ GuardedCall(r) /\ req[r].pc = "failed"
        /\ req[r].user = [role |-> <<"SUPER_ADMIN">>, isActive |-> <<>>]
        /\ req[r].requiredRoles = << <<"USER">> >>
        /\ req[r].message = <<"User account is inactive">>

\* the user's level reaches none of the declared levels
Insufficient(user, declared) ==
    \A k \in 1..Len(declared) : Level[user.role[1]] < Level[declared[k]]

\* C19: a denied check carries one of four messages, each naming a cause
\* that holds: no authenticated user, no role, inactive account,
\* insufficient level; a check denied for one cause alone carries that
\* cause's message; and the four messages differ from one another.
C19_DistinctDenials ==
    \A r \in Reqs :
        GuardedCall(r) =>
            LET user == req[r].user
                declared == req[r].requiredRoles[1]
                message == req[r].message
                noUser == user = NoUser
                noRole == user # NoUser /\ user.role = <<>>
                inactive == user # NoUser /\ user.isActive # <<TRUE>>
                insufficient == user # NoUser /\ user.role # <<>>
                                  /\ Insufficient(user, declared)
                denied == "Access denied. Required roles: "
            IN  /\ req[r].pc = "failed" =>
                     /\ message # <<>>
                     /\ \/ message = <<"User not authenticated">> /\ noUser
                        \/ message = <<"User role not found">> /\ noRole
                        \/ message = <<"User account is inactive">> /\ inactive
                        \/ message[1] = denied /\ insufficient
                /\ noUser => message = <<"User not authenticated">>
                /\ (noRole /\ ~inactive) => message = <<"User role not found">>
                /\ (inactive /\ ~noRole /\ ~insufficient) =>
                      message = <<"User account is inactive">>
                /\ (insufficient /\ ~inactive) =>
                      /\ message[1] = denied
                      /\ message[Len(message)] = user.role[1]
                /\ (~noUser /\ ~noRole /\ ~inactive /\ ~insufficient) =>
                      (req[r].pc = "done" /\ message = <<>>)
                /\ Cardinality({<<"User not authenticated">>, <<"User role not found">>,
                                <<"User account is inactive">>, <<denied>>}) = 4

\* witness of C19: an active CASHIER has been denied by a check declaring
\* ADMIN with the message naming the roles
C19_Witness ==
    \E r \in Reqs :
        /\ GuardedCall(r) /\ req[r].pc = "failed"
        /\ req[r].user = [role |-> <<"CASHIER">>, isActive |-> <<TRUE>>]
        /\ req[r].message = <<"Access denied. Required roles: ", "ADMIN",
                              ". Your role: ", "CASHIER">>

\* C20: a sale create call whose customerId names no customer has failed
\* with a NotFound error, has changed no product quantity and has created
\* no sale.
C20_UnknownCustomerNotFound ==
    \A r \in Reqs :
        (/\ req[r].op = "create"
         /\ req[r].customerId # ""
         /\ req[r].customerId \notin Customers)
        => /\ req[r].pc = "failed"
           /\ req[r].err = "NotFound: customer not found"
           /\ req[r].delta = ZeroDelta
           /\ req[r].id = 0

\* C27: when two reversal calls on one sale (a cancelSale with a cancelSale
\* or with a remove) have both read the sale as COMPLETED and have both
\* ended, the two together have raised each product's quantity by the
\* quantities of the sale's items once.
C27_ConcurrentReversalsRestoreOnce ==
    \A r1, r2 \in Reqs :
        (/\ r1 # r2
         /\ req[r1].op = "cancel" /\ req[r2].op \in {"cancel", "remove"}
         /\ req[r1].id = req[r2].id
         /\ req[r1].pc \in {"done", "failed"} /\ req[r2].pc \in {"done", "failed"}
         /\ req[r1].snap # NoSale /\ req[r2].snap # NoSale
         /\ req[r1].snap.status = "COMPLETED" /\ req[r2].snap.status = "COMPLETED")
        => \A p \in Products :
              req[r1].delta[p] + req[r2].delta[p] = SumQty(req[r1].snap.items, p)

\* C28: no step changes the status of an invoice from PAID to CANCELLED.
C28_PaidNeverCancelled ==
    [][\A k \in 1..Len(invoices) :
          invoices[k].status = "PAID" => invoices'[k].status # "CANCELLED"]_vars

\* C30: the step in which generateInvoiceNumber returns leaves the call with
\* a number whose sequence is greater than the sequence of every invoice of
\* the same year-month in the table, also once the month has passed 9999.
C30_GeneratedNumberIsGreater ==
    [][\A r \in Reqs :
          (req[r].pc = "invoice_generate" /\ req'[r].pc = "invoice_create")
          => \A k \in 1..Len(invoices) :
                InvoiceMonth(invoices[k].invoiceNumber) = InvoiceMonth(req'[r].invoiceNumber)
                => InvoiceSequence(invoices[k].invoiceNumber)
                      < InvoiceSequence(req'[r].invoiceNumber)]_vars

\* the quantity of product p a sale holds out of the stock: its items'
\* quantities while the sale exists and is not CANCELLED
HeldQuantity(sale, p) ==
    IF sale = NoSale THEN 0
    ELSE IF sale.status = "CANCELLED" THEN 0
    ELSE SumQty(sale.items, p)

\* C26: stock is conserved by every sale operation: a create, update,
\* updateSaleStatus, cancelSale or remove call that has succeeded, run with
\* no other call in flight, has changed each product's quantity by exactly
\* the opposite of the change it made to the quantity held by the sale it
\* acted on (before the call: the sale as the call read it; after: the sale
\* as it is stored), so that quantity plus the items of the existing
\* non-CANCELLED sales stays what it was; in particular no call moves a
\* sale into or out of CANCELLED without the matching stock change.
C26_SaleOperationsConserveStock ==
    \A r \in Reqs :
        (/\ serial
         /\ req[r].pc = "done"
         /\ req[r].op \in {"create", "update", "updateSaleStatus", "cancel", "remove"})
        => \A p \in Products :
              req[r].delta[p] + HeldQuantity(sales[req[r].id], p)
                  = HeldQuantity(req[r].snap, p)

\* C21: every step leaves every persisted sale with totalAmount equal to
\* the sum of its items' totalPrice and each item's totalPrice equal to
\* unitPrice * quantity - discount; a sale persisted by the step has each
\* item's unitPrice equal to the price its product has at that moment; and
\* a sale that was already persisted keeps its items and its totalAmount
\* (update, updateSaleStatus and cancelSale rewrite neither).
C21_SaleTotalsReconcile ==
    [][\A id \in SaleIds :
          sales'[id] # NoSale =>
             /\ sales'[id].totalAmount = SumTotalPrice(sales'[id].items)
             /\ \A k \in 1..Len(sales'[id].items) :
                   LET item == sales'[id].items[k]
                   IN  /\ item.totalPrice = (item.unitPrice * item.quantity) - item.discount
                       /\ sales[id] = NoSale =>
                             item.unitPrice = products[item.productId].price
             /\ sales[id] # NoSale =>
                   /\ sales'[id].items = sales[id].items
                   /\ sales'[id].totalAmount = sales[id].totalAmount]_vars

\* witness of C21: after the price of a product was changed, a sale of two
\* items, one of them discounted and one of them of that product at its new
\* price, has been persisted, and an update call that named a discount and
\* a status has then succeeded on it
C21_Witness ==
    \E r \in Reqs :
        /\ req[r].op = "update" /\ req[r].pc = "done"
        /\ req[r].dto.discount # Absent /\ req[r].dto.status # Absent
        /\ sales[req[r].id] # NoSale
        /\ Len(sales[req[r].id].items) = 2
        /\ \E k \in 1..2 : sales[req[r].id].items[k].discount > 0
        /\ \E k \in 1..2 : sales[req[r].id].items[k].discount = 0
        /\ \E k \in 1..2 :
              LET item == sales[req[r].id].items[k]
              IN  /\ item.unitPrice = 9
                  /\ item.unitPrice # InitialPrice(item.productId)

\* C25: as long as the calls run one after another, an updateStock call on
\* an existing product that has ended has either succeeded, with the sum of
\* the quantity it read and its argument non-negative and stored as the
\* product's quantity, or failed with 'Insufficient stock', with that sum
\* negative and the quantity left as it was read; and no quantity is
\* negative.
C25_UpdateStockAddsOrRefuses ==
    serial =>
       /\ \A p \in Products : products[p].quantity >= 0
       /\ \A r \in Reqs :
             (/\ req[r].op = "updateStock"
              /\ req[r].pc \in {"done", "failed"}
              /\ req[r].product \in Products)
             => LET stored == products[req[r].product].quantity
                    read == stored - req[r].delta[req[r].product]
                IN  IF read + req[r].quantity < 0
                    THEN /\ req[r].pc = "failed"
                         /\ req[r].err = "BadRequest: Insufficient stock"
                         /\ req[r].delta = ZeroDelta
                    ELSE /\ req[r].pc = "done"
                         /\ stored = read + req[r].quantity

\* witness of C25: with the calls run one after another, an updateStock
\* call has been refused for a product whose quantity an earlier call had
\* changed
C25_Witness ==
    /\ serial
    /\ \E r \in Reqs :
          /\ req[r].op = "updateStock" /\ req[r].pc = "failed"
          /\ req[r].err = "BadRequest: Insufficient stock"
          /\ req[r].product \in Products
          /\ products[req[r].product].quantity # InitialQuantity(req[r].product)

\* the adjustment a successful call is meant to make to product p: the
\* argument of updateStock, minus the items of the sale created, plus the
\* items of the sale cancelled
IntendedAdjustment(r, p) ==
    IF req[r].op = "updateStock"
    THEN (IF req[r].product = p THEN req[r].quantity ELSE 0)
    ELSE IF req[r].op = "create" THEN 0 - SumQty(sales[req[r].id].items, p)
    ELSE IF req[r].op = "cancel" THEN SumQty(req[r].snap.items, p)
    ELSE 0

\* C29: no stock adjustment is lost.  When the only calls since the start
\* are an updateStock and another updateStock or a sale create, and both
\* have succeeded, or a sale create followed by its cancelSale and an
\* updateStock, all three having succeeded, every product's quantity is
\* its initial quantity plus the adjustments of the calls (a sale and its
\* cancellation add up to zero).
C29_NoStockAdjustmentLost ==
    /\ (/\ ops = 2
        /\ \A r \in Reqs : req[r].pc = "done" /\ req[r].op \in {"updateStock", "create"}
        /\ \E r \in Reqs : req[r].op = "updateStock")
       => \A p \in Products :
             products[p].quantity
                = InitialQuantity(p) + IntendedAdjustment("r1", p) + IntendedAdjustment("r2", p)
    /\ (/\ ops = 3 /\ nextSaleId = 2
        /\ \A r \in Reqs : req[r].pc = "done" /\ req[r].op \in {"updateStock", "cancel"}
        /\ \E r \in Reqs : req[r].op = "updateStock"
        /\ \E r \in Reqs : req[r].op = "cancel")
       => \A p \in Products :
             \E r \in Reqs :
                /\ req[r].op = "updateStock"
                /\ products[p].quantity = InitialQuantity(p) + IntendedAdjustment(r, p)

\* C22: a category remove call that counts at least one product with that
\* categoryId fails with the BadRequest of the product test and deletes
\* nothing; with the calls run one after another the category is then still
\* there, and a call that has succeeded has deleted a category no product
\* references; and at all times every product's category exists.
C22_CategoryWithProductsIsKept ==
    /\ \A p \in ProductIds :
          products[p] # NoProduct => categories[products[p].categoryId] # NoCategory
    /\ \A r \in Reqs :
          req[r].op = "removeCategory" =>
             /\ req[r].n >= 1 =>
                   /\ req[r].pc = "failed"
                   /\ req[r].err = "BadRequest: cannot delete category that has products"
                   /\ serial => categories[req[r].categoryId] # NoCategory
             /\ (serial /\ req[r].pc = "done") =>
                   /\ categories[req[r].categoryId] = NoCategory
                   /\ ProductCount(products, req[r].categoryId) = 0

\* witness of C22: a category remove call has been refused for a category
\* holding a single product, after an earlier call changed the products
C22_Witness ==
    \E r \in Reqs :
        /\ req[r].op = "removeCategory" /\ req[r].pc = "failed"
        /\ req[r].n = 1
        /\ ProductCount(products, req[r].categoryId) = 1
        /\ categories[req[r].categoryId] # NoCategory

\* C23: no sale item references a product that does not exist: the remove
\* of a product that appears in a sale item is rejected, or its sale items
\* go with it.
C23_NoSaleItemWithoutProduct ==
    \A id \in SaleIds :
        sales[id] # NoSale =>
           \A k \in 1..Len(sales[id].items) :
              products[sales[id].items[k].productId] # NoProduct

\* witness of C23: a product remove call on a product that a sale item
\* references has been rejected by the store, and the product and the item
\* are still there
C23_Witness ==
    \E r \in Reqs :
        /\ req[r].op = "removeProduct" /\ req[r].pc = "failed"
        /\ req[r].err = "P2003: foreign key constraint failed"
        /\ products[req[r].product] # NoProduct
        /\ SaleItemReferences(sales, req[r].product)

\* the day an instant falls on
DayOf(instant) == instant \div DayLength

\* the sales a report over the days startDay..endDay with a category
\* filter is to count: COMPLETED, created on one of those days, with at
\* least one item whose product is in the category
Reportable(startDay, endDay, category) ==
    {id \in SaleIds :
        /\ sales[id] # NoSale
        /\ sales[id].status = "COMPLETED"
        /\ DayOf(sales[id].createdAt) >= startDay
        /\ DayOf(sales[id].createdAt) <= endDay
        /\ \E k \in 1..Len(sales[id].items) :
              /\ products[sales[id].items[k].productId] # NoProduct
              /\ products[sales[id].items[k].productId].categoryId = category}

\* C24: a sales report asked for a range of dates with a category filter
\* that has been produced counts exactly the COMPLETED sales created on a
\* day of the range that have an item of a product of the category, and
\* its totalRevenue is the sum of their finalAmount: no CANCELLED or
\* PENDING sale is counted.
C24_ReportCountsCompletedSalesOfCategory ==
    \A r \in Reqs :
        (/\ req[r].op = "salesReport" /\ req[r].pc = "done"
         /\ req[r].dto.category # ""
         /\ Truthy(req[r].dto.startDate) /\ Truthy(req[r].dto.endDate))
        => LET counted == Reportable(DayNumber(ParseDate(req[r].dto.startDate.value)),
                                     DayNumber(ParseDate(req[r].dto.endDate.value)),
                                     req[r].dto.category)
           IN  /\ req[r].summary.totalSales = Cardinality(counted)
               /\ req[r].summary.totalRevenue
                     = SumTo([id \in SaleIds |->
                                 IF id \in counted THEN sales[id].finalAmount ELSE 0],
                             MaxOps)

====
